---------------------------- MODULE Spec2Model ----------------------------
(***************************************************************************)
(* Client-side streaming reconciliation engine of biagent-frontend.        *)
(*                                                                         *)
(* The zustand store (src/src/lib/store.ts) is one state object; it is the *)
(* variable `store`, a record with the store's fields.  Every store action *)
(* `set((state) => ...)` is an operator from a store record to a store     *)
(* record, named as in the source.  Socket frames, REST responses and user *)
(* actions are the actions of the state machine; each runs one callback to *)
(* completion (the host's run-to-completion model).                        *)
(*                                                                         *)
(* Representation of JavaScript values:                                    *)
(*   null / undefined object        Null, the empty function <<>>          *)
(*   undefined string field         Undefined                              *)
(*   optional field of a message    the field is absent from the record    *)
(*   Record<number, T>              a function whose DOMAIN is the keys    *)
(*   Date.now()                     `now`, a clock that advances by one    *)
(*                                  millisecond per callback               *)
(***************************************************************************)
EXTENDS Integers, Sequences, FiniteSets, Bags, TLC

VARIABLES
    store,      \* the zustand store (useStore)
    loads,      \* in-flight runs of TicketDetail's load effect / loadStepOutputs
    pendingAcks,\* the bag of in-flight api.acknowledgeEvents calls (their id sets)
    now,        \* Date.now(), in milliseconds since the epoch
    lastOp,     \* history: the callback that ran last (message or response)
    prev,       \* history: the store as it was before that callback
    arrived,    \* history: per step, the tokens handled since its live log was last cleared
    acct,       \* history: totals at load plus tokens/cost of the step_completed events handled
    restore,    \* the bag of in-flight api.restoreSession calls (the session ids sent)
    acked,      \* history: ids a successful acknowledgement removed from the offline queue
    sockets,    \* the WebSocket objects useWebSocket created, in order of creation
    wsRef,      \* wsRef.current: an index into sockets, 0 for null
    reconnectTimeoutRef,   \* the reconnect timer: none, pending or fired, with its delay
    heartbeatIntervalRef,  \* the heartbeat interval: none or active, with its period
    wire,       \* history: the payloads ws.send() transmitted
    dropped,    \* history: the messages send() was called with while the socket was not OPEN
    page        \* TicketDetail's local state: loading, error and ticket (set or not)

\* the refs and sockets of useWebSocket, with the histories of what it sent
transport == <<sockets, wsRef, reconnectTimeoutRef, heartbeatIntervalRef, wire, dropped>>

vars == <<store, loads, pendingAcks, now, lastOp, prev, arrived, acct,
          restore, acked, transport, page>>

(***************************************************************************)
(* Bounds and input alphabets                                              *)
(***************************************************************************)
\* number of callbacks explored from the initial state
MaxEvents == 4
\* number of ticket loads that may be in flight at once
MaxLoads == 2
\* number of session requests that may be in flight at once
MaxRestores == 2

StepNums == {1, 2}
Tokens == {"Hel", "lo"}
PipelineId == "p1"

Null == <<>>
Undefined == "<undefined>"

\* a timer ref holding no timer (useAuth.ts 171-172: useRef(null))
NoTimer == [state |-> "null", delay |-> 0]

\* useAuth.ts 166-167: the delay before a reconnect and the heartbeat period, in ms
RECONNECT_DELAY == 3000
HEARTBEAT_INTERVAL == 30000

\* setTimeout(f, delay) / setInterval(f, delay) as the state of the timer
Timer(state, delay) == [state |-> state, delay |-> delay]

(***************************************************************************)
(* Record<number, T> helpers                                               *)
(***************************************************************************)
\* obj[key] || dflt, for values that are never falsy when present (arrays, objects)
Get(obj, key, dflt) == IF key \in DOMAIN obj THEN obj[key] ELSE dflt

\* { ...obj, [key]: value }
Put(obj, key, value) ==
    [k \in (DOMAIN obj) \cup {key} |-> IF k = key THEN value ELSE obj[k]]

\* const o = { ...obj }; delete o[key]
Delete(obj, key) == [k \in (DOMAIN obj) \ {key} |-> obj[k]]

\* { ...a, ...b }
Merge(a, b) ==
    [k \in (DOMAIN a) \cup (DOMAIN b) |-> IF k \in DOMAIN b THEN b[k] ELSE a[k]]

\* message.field || dflt for an optional numeric field (undefined, null and 0 are falsy)
OrNum(m, field, dflt) ==
    IF field \in DOMAIN m /\ m[field] # 0 THEN m[field] ELSE dflt

\* message.field || dflt for an optional string field (undefined and '' are falsy)
OrStr(m, field, dflt) ==
    IF field \in DOMAIN m /\ m[field] # "" THEN m[field] ELSE dflt

\* array.map(f) is written [i \in 1..Len(array) |-> f(array[i])] where used

(***************************************************************************)
(* new Date(ms).toISOString() for 0 <= ms < 1000                           *)
(***************************************************************************)
Digit(d) == CASE d = 0 -> "0" [] d = 1 -> "1" [] d = 2 -> "2" [] d = 3 -> "3"
              [] d = 4 -> "4" [] d = 5 -> "5" [] d = 6 -> "6" [] d = 7 -> "7"
              [] d = 8 -> "8" [] d = 9 -> "9"

toISOString(ms) ==
    "1970-01-01T00:00:00." \o Digit(ms \div 100) \o Digit((ms \div 10) % 10)
        \o Digit(ms % 10) \o "Z"

(***************************************************************************)
(* Initial store state (store.ts 160-205)                                  *)
(***************************************************************************)
InitStore(session) ==
    [ sessionId              |-> session,
      tabs                   |-> <<>>,
      activeTab              |-> Undefined,
      currentPipeline        |-> Null,
      currentSteps           |-> <<>>,
      stepEvents             |-> <<>>,
      stepOutputs            |-> <<>>,
      completedEvents        |-> <<>>,
      completedToolCalls     |-> <<>>,
      stepSubagentActivities |-> <<>>,
      userInputRequest       |-> Null,
      worktreeStatus         |-> Undefined,
      pendingClarification   |-> Null,
      currentPR              |-> Null,
      offlineEvents          |-> <<>>,
      showOfflineBanner      |-> FALSE,
      wsStatus               |-> "disconnected" ]


(***************************************************************************)
(* Step Event Reducer (store.ts 239-295)                                   *)
(***************************************************************************)
setCurrentPipeline(s, pipeline) == [s EXCEPT !.currentPipeline = pipeline]

setCurrentSteps(s, steps) == [s EXCEPT !.currentSteps = steps]

\* mutant of appendTextEvent: the token is put in front of the trailing text
appendTextEvent_Prepend(s, step, text, ms) ==
    LET events == Get(s.stepEvents, step, <<>>)
        n == Len(events)
    IN  IF n > 0 /\ events[n].type = "text"
        THEN [s EXCEPT !.stepEvents =
                Put(@, step, [events EXCEPT ![n].content = text \o @])]
        ELSE [s EXCEPT !.stepEvents =
                Put(@, step, Append(events,
                    [type |-> "text", content |-> text, timestamp |-> ms]))]

\* a reducer that starts a new Text entry for every token
appendTextEvent_NoCoalesce(s, step, text, ms) ==
    [s EXCEPT !.stepEvents =
        Put(@, step, Append(Get(s.stepEvents, step, <<>>),
            [type |-> "text", content |-> text, timestamp |-> ms]))]

\* store.ts 242-265: a token is concatenated onto a trailing text entry, or
\* starts a new text entry stamped Date.now()
appendTextEvent(s, step, text, ms) ==
    LET events == Get(s.stepEvents, step, <<>>)
        n == Len(events)
    IN  IF n > 0 /\ events[n].type = "text"
        THEN [s EXCEPT !.stepEvents =
                Put(@, step, [events EXCEPT ![n].content = @ \o text])]
        ELSE [s EXCEPT !.stepEvents =
                Put(@, step, Append(events,
                    [type |-> "text", content |-> text, timestamp |-> ms]))]

\* store.ts 267-275
appendToolCallEvent(s, step, tool, args, toolUseId, ms) ==
    LET events == Get(s.stepEvents, step, <<>>)
    IN  [s EXCEPT !.stepEvents =
            Put(@, step, Append(events,
                [type |-> "tool_call", tool |-> tool, tool_use_id |-> toolUseId,
                 arguments |-> args, timestamp |-> ms]))]

\* store.ts 277-281
clearStepEvents(s, step) == [s EXCEPT !.stepEvents = Delete(@, step)]

\* store.ts 283-285
setStepOutputs(s, outputs) == [s EXCEPT !.stepOutputs = Merge(@, outputs)]

\* a setter that adds the snapshot to the frozen view it finds
setCompletedEvents_Append(s, stepNum, events) ==
    [s EXCEPT !.completedEvents =
        Put(@, stepNum, Get(s.completedEvents, stepNum, <<>>) \o events)]

\* store.ts 287-289
setCompletedEvents(s, stepNum, events) ==
    [s EXCEPT !.completedEvents = Put(@, stepNum, events)]

\* store.ts 291-293
setCompletedToolCalls(s, stepNum, toolCalls) ==
    [s EXCEPT !.completedToolCalls = Put(@, stepNum, toolCalls)]

\* store.ts 295
clearStepOutputs(s) ==
    [s EXCEPT !.stepOutputs = <<>>, !.completedEvents = <<>>,
              !.completedToolCalls = <<>>, !.stepSubagentActivities = <<>>]

(***************************************************************************)
(* Subagent Activity Tracker (store.ts 297-342)                            *)
(***************************************************************************)
appendSubagentToolCall(s, step, parentToolUseId, toolCall) ==
    LET stepActivities == Get(s.stepSubagentActivities, step, <<>>)
        activity == Get(stepActivities, parentToolUseId,
                        [parent_tool_use_id |-> parentToolUseId,
                         tool_calls |-> <<>>, status |-> "running"])
    IN  [s EXCEPT !.stepSubagentActivities =
            Put(@, step, Put(stepActivities, parentToolUseId,
                [activity EXCEPT !.tool_calls = Append(@, toolCall)]))]

\* store.ts 318-334; no code of the repository calls it
markSubagentCompleted(s, step, parentToolUseId) ==
    LET stepActivities == Get(s.stepSubagentActivities, step, <<>>)
    IN  IF parentToolUseId \notin DOMAIN stepActivities
        THEN s
        ELSE [s EXCEPT !.stepSubagentActivities =
                Put(@, step, Put(stepActivities, parentToolUseId,
                    [stepActivities[parentToolUseId] EXCEPT !.status = "completed"]))]

\* mutant of clearStepSubagents: the step's activities are kept
clearStepSubagents_Keep(s, step) == s

clearStepSubagents(s, step) ==
    [s EXCEPT !.stepSubagentActivities = Delete(@, step)]

setStepSubagentActivities(s, activities) ==
    [s EXCEPT !.stepSubagentActivities = activities]

(***************************************************************************)
(* Offline events (store.ts 409-414); acknowledgeOfflineEvents is split    *)
(* at its await into AckRequest / AckSucceeded / AckFailed below           *)
(***************************************************************************)
setOfflineEvents(s, events) == [s EXCEPT !.offlineEvents = events]

\* a receiver with a bounded queue that starts over when two are waiting
addOfflineEvent_Bounded(s, event) ==
    [s EXCEPT !.offlineEvents = IF Len(@) >= 2 THEN <<event>> ELSE Append(@, event),
              !.showOfflineBanner = TRUE]

\* store.ts 410-413
addOfflineEvent(s, event) ==
    [s EXCEPT !.offlineEvents = Append(@, event), !.showOfflineBanner = TRUE]

setShowOfflineBanner(s, show) == [s EXCEPT !.showOfflineBanner = show]

\* state.offlineEvents.filter(e => !eventIds.includes(e.id))
RECURSIVE FilterNotIn(_, _)
FilterNotIn(events, eventIds) ==
    IF events = <<>> THEN <<>>
    ELSE IF Head(events).id \in eventIds
         THEN FilterNotIn(Tail(events), eventIds)
         ELSE <<Head(events)>> \o FilterNotIn(Tail(events), eventIds)

\* an acknowledgement that empties the queue it finds when the server answers
applyAcknowledged_ClearAll(s, eventIds) ==
    [s EXCEPT !.offlineEvents = <<>>, !.showOfflineBanner = FALSE]

\* store.ts 422-425: the set() that runs once api.acknowledgeEvents resolved
applyAcknowledged(s, eventIds) ==
    [s EXCEPT !.offlineEvents = FilterNotIn(@, eventIds),
              !.showOfflineBanner = Len(FilterNotIn(s.offlineEvents, eventIds)) > 0]

\* a failure path that removes the events before the server confirmed
acknowledgeFailed_Optimistic(s, eventIds) == applyAcknowledged(s, eventIds)

\* store.ts 426-428: the catch block of acknowledgeOfflineEvents only logs
acknowledgeFailed(s, eventIds) == s

\* store.ts 504-509: the set() of restoreSession once api.restoreSession resolved
applySession(s, session) ==
    [s EXCEPT !.sessionId = session.session_id,
              !.tabs = session.tabs,
              !.activeTab = OrStr(session, "active_tab", Undefined)]


(***************************************************************************)
(* handleWSMessage (store.ts 519-827)                                      *)
(***************************************************************************)
\* currentSteps.map(f)
MapSteps(steps, f(_)) == [i \in 1..Len(steps) |-> f(steps[i])]

\* s.currentPipeline ? { ...s.currentPipeline, status } : null
WithPipelineStatus(s, status) ==
    IF s.currentPipeline = Null THEN Null
    ELSE [s.currentPipeline EXCEPT !.status = status]

\* mutant of apiFormatEvents: tool calls are left out of the frozen view
RECURSIVE apiFormatEvents_TextOnly(_)
apiFormatEvents_TextOnly(streamingEvents) ==
    IF streamingEvents = <<>> THEN <<>>
    ELSE (IF Head(streamingEvents).type = "text"
          THEN << [type |-> "text", content |-> Head(streamingEvents).content,
                   timestamp |-> toISOString(Head(streamingEvents).timestamp)] >>
          ELSE <<>>)
         \o apiFormatEvents_TextOnly(Tail(streamingEvents))

\* store.ts 586-601: the live log in the API's format; the numeric timestamp
\* becomes an ISO string and a tool call keeps tool and arguments only
apiFormatEvents(streamingEvents) ==
    [i \in 1..Len(streamingEvents) |->
        LET e == streamingEvents[i]
        IN  IF e.type = "text"
            THEN [type |-> "text", content |-> e.content,
                  timestamp |-> toISOString(e.timestamp)]
            ELSE [type |-> "tool_call", tool |-> e.tool, arguments |-> e.arguments,
                  timestamp |-> toISOString(e.timestamp)]]

\* store.ts 604-607: filter(text).map(content).join('')
RECURSIVE textContent(_)
textContent(streamingEvents) ==
    IF streamingEvents = <<>> THEN ""
    ELSE (IF Head(streamingEvents).type = "text"
          THEN Head(streamingEvents).content ELSE "")
         \o textContent(Tail(streamingEvents))

\* store.ts 626: textContent || message.output || ''
FinalOutput(streamingEvents, message) ==
    IF textContent(streamingEvents) # ""
    THEN textContent(streamingEvents)
    ELSE OrStr(message, "output", "")

\* mutant of CompletedPipeline: the totals are set to the step's usage
CompletedPipeline_Overwrite(pipeline, message) ==
    IF pipeline = Null THEN Null
    ELSE [pipeline EXCEPT
            !.current_step = OrNum(message, "next_step", message.step),
            !.total_tokens = OrNum(message, "tokens_used", 0),
            !.total_cost = OrNum(message, "cost", 0)]

\* store.ts 616-623
CompletedPipeline(pipeline, message) ==
    IF pipeline = Null THEN Null
    ELSE [pipeline EXCEPT
            !.current_step = OrNum(message, "next_step", message.step),
            !.total_tokens = pipeline.total_tokens + OrNum(message, "tokens_used", 0),
            !.total_cost = pipeline.total_cost + OrNum(message, "cost", 0)]

\* mutant of OnStepStarted: an earlier running step is left running
OnStepStarted_NoDemote(s, message) ==
    LET s1 == clearStepEvents(s, message.step)
        s2 == clearStepSubagents(s1, message.step)
    IN  [s2 EXCEPT
            !.currentSteps = MapSteps(@, LAMBDA step :
                IF step.step_number = message.step
                THEN [step EXCEPT !.status = "running", !.error_message = Undefined]
                ELSE step),
            !.stepOutputs = Delete(@, message.step)]

\* store.ts 540-561
OnStepStarted(s, message) ==
    LET s1 == clearStepEvents(s, message.step)
        s2 == clearStepSubagents(s1, message.step)
    IN  [s2 EXCEPT
            !.currentSteps = MapSteps(@, LAMBDA step :
                IF step.step_number = message.step
                THEN [step EXCEPT !.status = "running", !.error_message = Undefined]
                ELSE IF step.step_number < message.step /\ step.status = "running"
                     THEN [step EXCEPT !.status = "completed"]
                     ELSE step),
            !.stepOutputs = Delete(@, message.step)]

\* store.ts 583-634
OnStepCompleted(s, message) ==
    LET streamingEvents == Get(s.stepEvents, message.step, <<>>)
        s1 == clearStepEvents(s, message.step)
    IN  [s1 EXCEPT
            !.currentSteps = MapSteps(@, LAMBDA step :
                IF step.step_number = message.step
                THEN [step EXCEPT !.status = "completed",
                                  !.tokens_used = OrNum(message, "tokens_used", 0),
                                  !.cost = OrNum(message, "cost", 0)]
                ELSE step),
            !.currentPipeline = CompletedPipeline(@, message),
            !.stepOutputs = Put(@, message.step, FinalOutput(streamingEvents, message)),
            !.completedEvents = Put(@, message.step, apiFormatEvents(streamingEvents))]

\* store.ts 644-655
OnPipelinePaused(s, message) ==
    [s EXCEPT
        !.currentPipeline = WithPipelineStatus(s, "paused"),
        !.currentSteps = MapSteps(@, LAMBDA step :
            IF step.step_number = message.step
            THEN [step EXCEPT !.status = "paused"] ELSE step)]

\* a failure handler that also discards the failed step's live log and output
OnPipelineFailed_Clear(s, message) ==
    [clearStepEvents(s, message.step) EXCEPT
        !.currentPipeline = WithPipelineStatus(s, "failed"),
        !.currentSteps = MapSteps(@, LAMBDA step :
            IF step.step_number = message.step
            THEN [step EXCEPT !.status = "failed", !.error_message = message.error]
            ELSE step),
        !.stepOutputs = Delete(@, message.step)]

\* store.ts 657-668
OnPipelineFailed(s, message) ==
    [s EXCEPT
        !.currentPipeline = WithPipelineStatus(s, "failed"),
        !.currentSteps = MapSteps(@, LAMBDA step :
            IF step.step_number = message.step
            THEN [step EXCEPT !.status = "failed", !.error_message = message.error]
            ELSE step)]

\* a skip handler that moves the pointer and leaves the next step's status alone
OnStepSkipped_NoStart(s, message) ==
    [s EXCEPT
        !.currentSteps = MapSteps(@, LAMBDA step :
            IF step.step_number = message.step
            THEN [step EXCEPT !.status = "skipped",
                              !.error_message = "[SKIPPED] " \o message.reason]
            ELSE step),
        !.currentPipeline =
            IF @ = Null THEN Null ELSE [@ EXCEPT !.current_step = message.next_step]]

\* store.ts 670-687
OnStepSkipped(s, message) ==
    [s EXCEPT
        !.currentSteps = MapSteps(@, LAMBDA step :
            IF step.step_number = message.step
            THEN [step EXCEPT !.status = "skipped",
                              !.error_message = "[SKIPPED] " \o message.reason]
            ELSE IF step.step_number = message.next_step
                 THEN [step EXCEPT !.status = "running"]
                 ELSE step),
        !.currentPipeline =
            IF @ = Null THEN Null ELSE [@ EXCEPT !.current_step = message.next_step]]

\* store.ts 733-751
OnClarificationRequested(s, message) ==
    [s EXCEPT
        !.currentPipeline = WithPipelineStatus(s, "waiting_for_review"),
        !.currentSteps = MapSteps(@, LAMBDA step :
            IF step.step_number = message.step
            THEN [step EXCEPT !.status = "waiting"] ELSE step),
        !.pendingClarification =
            [id |-> message.clarification_id, stepNumber |-> message.step,
             question |-> message.question, options |-> message.options,
             context |-> IF "context" \in DOMAIN message
                         THEN message.context ELSE Undefined]]

\* store.ts 753-765
OnClarificationAnswered(s, message) ==
    [s EXCEPT
        !.currentPipeline = WithPipelineStatus(s, "running"),
        !.currentSteps = MapSteps(@, LAMBDA step :
            IF step.step_number = message.step
            THEN [step EXCEPT !.status = "running"] ELSE step),
        !.pendingClarification = Null]

\* store.ts 519-827, the synchronous part; `ms` is the value Date.now()
\* returns during the callback.  sync_complete and ticket_updated only start
\* fetchTickets, which writes none of the fields modelled here; the review
\* fetch that review_received, review_responded and changes_requested start
\* is StartsReviewFetch, and its continuations are the actions ReviewsFetched,
\* ReviewsFetchFailed, PRFetched and PRFetchFailed.
handleWSMessage(s, message, ms) ==
    CASE message.type \in {"pipeline_started", "pipeline_resumed"} ->
            [s EXCEPT !.currentPipeline = WithPipelineStatus(s, "running"),
                      !.worktreeStatus = Undefined,
                      !.userInputRequest = Null]
      [] message.type = "token" ->
            appendTextEvent(s, message.step, message.token, ms)
      [] message.type = "step_started" -> OnStepStarted(s, message)
      [] message.type = "tool_call_started" ->
            appendToolCallEvent(s, message.step, message.tool, message.arguments,
                                message.tool_use_id, ms)
      [] message.type = "subagent_tool_call" ->
            appendSubagentToolCall(s, message.step, message.parent_tool_use_id,
                [tool_use_id |-> message.tool_use_id, tool_name |-> message.tool_name,
                 arguments |-> message.arguments, timestamp |-> message.timestamp])
      [] message.type = "step_completed" -> OnStepCompleted(s, message)
      [] message.type = "pipeline_completed" ->
            [s EXCEPT !.currentPipeline = WithPipelineStatus(s, "completed")]
      [] message.type = "pipeline_paused" -> OnPipelinePaused(s, message)
      [] message.type = "pipeline_failed" -> OnPipelineFailed(s, message)
      [] message.type = "step_skipped" -> OnStepSkipped(s, message)
      [] message.type = "worktree_session_creating" ->
            [s EXCEPT !.worktreeStatus = "creating"]
      [] message.type = "worktree_setup_started" ->
            [s EXCEPT !.worktreeStatus = "setup"]
      [] message.type = "worktree_session_ready" ->
            [s EXCEPT !.worktreeStatus = "ready", !.userInputRequest = Null]
      [] message.type = "pipeline_needs_input" ->
            [s EXCEPT !.currentPipeline = WithPipelineStatus(s, "needs_user_input"),
                      !.worktreeStatus = "needs_user_input",
                      !.userInputRequest =
                          [input_type |-> message.input_type, repos |-> message.repos]]
      [] message.type = "worktree_session_cleaned" ->
            [s EXCEPT !.worktreeStatus = "cleaned"]
      [] message.type = "clarification_requested" -> OnClarificationRequested(s, message)
      [] message.type = "clarification_answered" -> OnClarificationAnswered(s, message)
      [] message.type \in {"waiting_for_review", "changes_requested"} ->
            [s EXCEPT !.currentPipeline = WithPipelineStatus(s, "waiting_for_review")]
      [] message.type = "pr_approved" ->
            [s EXCEPT !.currentPipeline = WithPipelineStatus(s, "completed"),
                      !.currentPR = IF @ = Null THEN Null
                                    ELSE [@ EXCEPT !.status = "approved"]]
      [] message.type = "offline_event" ->
            addOfflineEvent(s,
                [id |-> message.event_id, type |-> message.event_type,
                 pipeline_id |-> message.pipeline_id, data |-> message.data,
                 occurred_at |-> message.occurred_at])
      [] OTHER -> s


\* store.ts 776-788, 808-811: the handler calls fetchPipelineReviews when a
\* pipeline is loaded
StartsReviewFetch(s, message) ==
    /\ message.type \in {"review_received", "review_responded", "changes_requested"}
    /\ s.currentPipeline # Null

\* store.ts 399-400, 403: the set() calls of fetchPipelineReviews once
\* api.getPipelinePR settled
setCurrentPR(s, pr) == [s EXCEPT !.currentPR = pr]

(***************************************************************************)
(* Reconciliation Coordinator (TicketDetail.tsx 58-207)                    *)
(***************************************************************************)
\* the argument strings of the model's server on which JSON.parse(tc.arguments)
\* returns; on any other string, "{\"q\":" among them, it throws
ValidJSON == {"{}", "{\"q\":\"x\"}"}

JSONparse(str) == IF str = "{}" THEN <<>> ELSE [q |-> "x"]

\* TicketDetail.tsx 144-146: replay the persisted tool calls of the running
\* step into its live log, one appendToolCallEvent per call; `acc.ok` turns
\* FALSE when JSON.parse throws, which leaves the loop and the try block
RECURSIVE ReplayToolCalls(_, _, _, _)
ReplayToolCalls(acc, stepNum, toolCalls, ms) ==
    IF toolCalls = <<>> \/ ~acc.ok THEN acc
    ELSE LET tc == Head(toolCalls)
         IN  IF tc.arguments \notin ValidJSON
             THEN [acc EXCEPT !.ok = FALSE]
             ELSE ReplayToolCalls(
                    [acc EXCEPT !.s = appendToolCallEvent(acc.s, stepNum, tc.tool,
                                        JSONparse(tc.arguments), tc.tool_use_id, ms)],
                    stepNum, Tail(toolCalls), ms)

\* TicketDetail.tsx 153-156: tool_calls.map(tc => ({tool, arguments}))
FallbackToolCalls(toolCalls) ==
    [i \in 1..Len(toolCalls) |->
        [tool |-> toolCalls[i].tool, arguments |-> toolCalls[i].arguments]]

\* stepNum === runningStepNum, where the load has no runningStepNum field when
\* the pipeline was not running at load (TicketDetail.tsx 104)
IsRunningStep(load, stepNum) ==
    "runningStepNum" \in DOMAIN load /\ load.runningStepNum = stepNum

\* TicketDetail.tsx 136-157: the body of the loop for one entry of response.steps
ApplyStepData(acc, stepNum, stepData, load, ms) ==
    LET withOutput ==
            IF stepData.content # ""
            THEN [acc EXCEPT !.outputs = Put(@, stepNum, stepData.content)]
            ELSE acc
    IN  IF IsRunningStep(load, stepNum) /\ Len(stepData.tool_calls) > 0
        THEN ReplayToolCalls(withOutput, stepNum, stepData.tool_calls, ms)
        ELSE IF Len(stepData.events) > 0
        THEN [withOutput EXCEPT !.s = setCompletedEvents(@, stepNum, stepData.events)]
        ELSE IF Len(stepData.tool_calls) > 0
        THEN [withOutput EXCEPT !.s =
                setCompletedToolCalls(@, stepNum, FallbackToolCalls(stepData.tool_calls))]
        ELSE withOutput

\* Object.entries(response.steps): integer keys in ascending order
RECURSIVE ApplySteps(_, _, _, _, _)
ApplySteps(acc, steps, todo, load, ms) ==
    IF todo = {} \/ ~acc.ok THEN acc
    ELSE LET stepNum == CHOOSE k \in todo : \A j \in todo : k <= j
         IN  ApplySteps(ApplyStepData(acc, stepNum, steps[stepNum], load, ms),
                        steps, todo \ {stepNum}, load, ms)

\* TicketDetail.tsx 131-165: what loadStepOutputs does to the store once
\* api.getAllStepOutputs resolved with `response`
applyStepOutputs(s, response, load, ms) ==
    LET acc == ApplySteps([s |-> s, outputs |-> <<>>, ok |-> TRUE],
                          response.steps, DOMAIN response.steps, load, ms)
    IN  IF acc.ok /\ DOMAIN acc.outputs # {}
        THEN setStepOutputs(acc.s, acc.outputs)
        ELSE acc.s

\* TicketDetail.tsx 172-198: group the flat list by step_number and parent_tool_use_id
RECURSIVE GroupSubagentCalls(_, _)
GroupSubagentCalls(grouped, subagentToolCalls) ==
    IF subagentToolCalls = <<>> THEN grouped
    ELSE LET tc == Head(subagentToolCalls)
             ofStep == Get(grouped, tc.step_number, <<>>)
             activity == Get(ofStep, tc.parent_tool_use_id,
                            [parent_tool_use_id |-> tc.parent_tool_use_id,
                             events |-> <<>>, tool_calls |-> <<>>,
                             status |-> "completed"])
             added == [activity EXCEPT
                        !.events = Append(@,
                            [type |-> "tool_call", timestamp |-> tc.created_at,
                             tool_use_id |-> tc.tool_use_id, tool_name |-> tc.tool_name,
                             arguments |-> tc.arguments]),
                        !.tool_calls = Append(@,
                            [tool_use_id |-> tc.tool_use_id, tool_name |-> tc.tool_name,
                             arguments |-> tc.arguments, timestamp |-> tc.created_at])]
         IN  GroupSubagentCalls(
                Put(grouped, tc.step_number, Put(ofStep, tc.parent_tool_use_id, added)),
                Tail(subagentToolCalls))

\* TicketDetail.tsx 167-206: what loadStepOutputs does to the store once
\* api.getPipelineSubagentToolCalls resolved
applySubagentHistory(s, subagentToolCalls) ==
    LET grouped == GroupSubagentCalls(<<>>, subagentToolCalls)
    IN  IF DOMAIN grouped # {}
        THEN setStepSubagentActivities(s, grouped)
        ELSE s

\* TicketDetail.tsx 65-70: the synchronous part of the ticket-change effect
clearPreviousTicket(s) ==
    LET s1 == clearStepOutputs(setCurrentSteps(setCurrentPipeline(s, Null), <<>>))
    IN  [s1 EXCEPT !.userInputRequest = Null, !.worktreeStatus = Undefined]

\* TicketDetail.tsx 88-98: the pipeline and its steps arrived
installPipeline(s, pipeline, steps) ==
    LET s1 == IF pipeline.status = "needs_user_input"
                    /\ "user_input_request" \in DOMAIN pipeline
              THEN [s EXCEPT
                      !.worktreeStatus = OrStr(pipeline, "worktree_status",
                                               "needs_user_input"),
                      !.userInputRequest =
                          [input_type |-> "setup_commands",
                           repos |-> pipeline.user_input_request.repos]]
              ELSE s
    IN  setCurrentSteps(setCurrentPipeline(s1, pipeline), steps)

\* TicketDetail.tsx 103-106: the load's next stage once the pipeline is installed
NextLoadStage(pipeline) ==
    IF pipeline.status = "pending" THEN Null
    ELSE IF pipeline.status = "running"
    THEN [stage |-> "outputs", runningStepNum |-> pipeline.current_step]
    ELSE [stage |-> "outputs"]


(***************************************************************************)
(* Inputs: socket frames (types/index.ts 124-157) and server snapshots     *)
(***************************************************************************)
TokenMsg(n, t) == [type |-> "token", step |-> n, token |-> t]

StepStartedMsg(n) == [type |-> "step_started", step |-> n]

\* tool invocations the agent makes: a plain tool without a tool-use id and a
\* Task call that carries one
ToolUses ==
    { [tool |-> "Search", tool_use_id |-> Undefined, arguments |-> <<>>],
      [tool |-> "Task", tool_use_id |-> "t1", arguments |-> [q |-> "x"]] }

ToolCallMsg(n, u) ==
    [type |-> "tool_call_started", step |-> n, tool |-> u.tool,
     tool_use_id |-> u.tool_use_id, arguments |-> u.arguments]

SubagentMsg(n, parent) ==
    [type |-> "subagent_tool_call", step |-> n, parent_tool_use_id |-> parent,
     tool_use_id |-> "u1", tool_name |-> "Read", arguments |-> <<>>,
     timestamp |-> "2026-01-01T00:00:00Z"]

\* step_completed frames: with and without a next step, usage figures and output
StepCompletedMsgs(n) ==
    { [type |-> "step_completed", step |-> n, next_step |-> n + 1,
       tokens_used |-> 10, cost |-> 1],
      [type |-> "step_completed", step |-> n, tokens_used |-> 5, cost |-> 2,
       output |-> "out"],
      [type |-> "step_completed", step |-> n] }

\* GET /pipelines/by-ticket and /pipelines/:id/steps: the server's view when
\* `cur` is the current step of a pipeline with the given status and totals
ServerSteps(status, cur) ==
    [n \in StepNums |->
        [step_number |-> n,
         status |-> IF n < cur THEN "completed"
                    ELSE IF n = cur /\ status # "pending" THEN status
                    ELSE "pending",
         tokens_used |-> IF n < cur THEN 10 ELSE 0,
         cost |-> IF n < cur THEN 1 ELSE 0,
         error_message |-> Undefined]]

ServerPipeline(status, cur, tokens, cost) ==
    [id |-> PipelineId, status |-> status, current_step |-> cur,
     total_tokens |-> tokens, total_cost |-> cost]

Snapshots ==
    { [pipeline |-> ServerPipeline("pending", 1, 0, 0), steps |-> ServerSteps("pending", 1)],
      [pipeline |-> ServerPipeline("running", 1, 0, 0), steps |-> ServerSteps("running", 1)],
      [pipeline |-> ServerPipeline("running", 2, 12, 3), steps |-> ServerSteps("running", 2)],
      [pipeline |-> ServerPipeline("completed", 2, 20, 2),
       steps |-> ServerSteps("completed", 3)] }

(***************************************************************************)
(* History variables                                                       *)
(***************************************************************************)
\* the tokens handled for each step since its live log was last cleared
ArrivedAfter(message) ==
    CASE message.type = "token" ->
            [arrived EXCEPT ![message.step] = @ \o message.token]
      [] message.type \in {"step_started", "step_completed"} ->
            [arrived EXCEPT ![message.step] = ""]
      [] OTHER -> arrived

\* totals at load plus the usage of every step_completed handled since
AcctAfter(message) ==
    IF message.type = "step_completed" /\ acct # Null
    THEN [tokens |-> acct.tokens
                     + (IF "tokens_used" \in DOMAIN message THEN message.tokens_used ELSE 0),
          cost |-> acct.cost + (IF "cost" \in DOMAIN message THEN message.cost ELSE 0)]
    ELSE acct

(***************************************************************************)
(* Actions                                                                 *)
(***************************************************************************)
\* TicketDetail.tsx 33-35: ticket useState(null), loading useState(true),
\* error useState(null)
InitPage == [ticket |-> FALSE, loading |-> TRUE, error |-> FALSE]

\* TicketDetail.tsx 113-115: finally { setLoading(false) } once a load has no
\* stage left
PageAfter(pg, stage) == IF stage = Null THEN [pg EXCEPT !.loading = FALSE] ELSE pg

Init ==
    /\ store \in {InitStore(Undefined), InitStore("s1")}
    /\ loads = <<>>
    /\ pendingAcks = EmptyBag
    /\ now = 0
    /\ lastOp = [type |-> "init"]
    /\ prev = store
    /\ arrived = [n \in StepNums |-> ""]
    /\ acct = Null
    /\ restore = EmptyBag
    /\ acked = {}
    /\ sockets = <<>>
    /\ wsRef = 0
    /\ reconnectTimeoutRef = NoTimer
    /\ heartbeatIntervalRef = NoTimer
    /\ wire = {}
    /\ dropped = {}
    /\ page = InitPage

\* useWebSocket.ts onmessage (useAuth.ts 210-217): one frame, handled to completion
Receive(message) ==
    /\ now < MaxEvents
    /\ store' = handleWSMessage(store, message, now)
    /\ now' = now + 1
    /\ prev' = store
    /\ lastOp' = message
    /\ arrived' = ArrivedAfter(message)
    /\ acct' = AcctAfter(message)
    /\ loads' = IF StartsReviewFetch(store, message)
                THEN Append(loads, [stage |-> "reviews"]) ELSE loads
    /\ UNCHANGED pendingAcks
    /\ UNCHANGED <<restore, acked, transport, page>>

Token ==
    /\ now < MaxEvents
    /\ \E n \in StepNums, t \in Tokens : Receive(TokenMsg(n, t))

ToolCallStarted ==
    /\ now < MaxEvents
    /\ \E n \in StepNums, u \in ToolUses : Receive(ToolCallMsg(n, u))

StepStarted ==
    /\ now < MaxEvents
    /\ \E n \in StepNums : Receive(StepStartedMsg(n))

StepCompleted ==
    /\ now < MaxEvents
    /\ \E n \in StepNums : \E m \in StepCompletedMsgs(n) : Receive(m)

SubagentToolCall ==
    /\ now < MaxEvents
    /\ \E n \in StepNums : Receive(SubagentMsg(n, "t1"))

\* parent ids of Task calls: one that subagent frames name and one they never name
ParentIds == {"t1", "t2"}

\* the ticket loads in flight, among the requests in flight
TicketLoads ==
    {i \in 1..Len(loads) : loads[i].stage \in {"ticket", "pipeline", "steps", "outputs", "subagents"}}

\* the requests in flight once the component that shows the page is unmounted:
\* they go on, and their continuations' setTicket, setLoading and setError
\* reach a component that is gone
Unmounted(ls) ==
    [i \in 1..Len(ls) |-> IF "mounted" \in DOMAIN ls[i]
                          THEN [ls[i] EXCEPT !.mounted = FALSE] ELSE ls[i]]

\* TicketDetail.tsx 33-35, 58-75: the effect runs when the route's ticket
\* changes on the mounted page, which keeps the component's state, and when the
\* page is mounted (at first, or again after the route was left), which starts
\* from the component's initial state with a new loadingRef; it clears the
\* store, sets loading and requests the ticket
TicketEffect ==
    /\ now < MaxEvents
    /\ Cardinality(TicketLoads) < MaxLoads
    /\ \E remount \in BOOLEAN :
        /\ page' = IF remount THEN InitPage
                   ELSE [page EXCEPT !.loading = TRUE, !.error = FALSE]
        /\ loads' = Append(IF remount THEN Unmounted(loads) ELSE loads,
                           [stage |-> "ticket", mounted |-> TRUE])
    /\ store' = clearPreviousTicket(store)
    /\ now' = now + 1
    /\ prev' = store
    /\ lastOp' = [type |-> "ticket_effect"]
    /\ acct' = Null
    /\ UNCHANGED <<pendingAcks, arrived>>
    /\ UNCHANGED <<restore, acked, transport>>

RemoveAt(seq, i) == SubSeq(seq, 1, i - 1) \o SubSeq(seq, i + 1, Len(seq))

\* a load moves to its next stage, or ends when there is none
Advance(i, stage) ==
    loads' = IF stage = Null THEN RemoveAt(loads, i)
             ELSE [loads EXCEPT ![i] = IF "mounted" \in DOMAIN loads[i]
                                       THEN stage @@ [mounted |-> loads[i].mounted]
                                       ELSE stage]

\* the page after a continuation of load i has set its state to pg: its
\* component's state is written only while the component is mounted
PageOf(i, pg) == IF loads[i].mounted THEN pg ELSE page

\* TicketDetail.tsx 78-83: api.getTicket resolved; the ticket is set and the
\* ticket's pipeline is requested.  The continuation writes nothing else, and
\* it is not counted as an event of the clock
TicketFetched ==
    /\ Len(loads) > 0
    /\ \E i \in 1..Len(loads) :
        /\ loads[i].stage = "ticket"
        /\ Advance(i, [stage |-> "pipeline"])
        /\ page' = PageOf(i, [page EXCEPT !.ticket = TRUE])
    /\ prev' = store
    /\ lastOp' = [type |-> "ticket_fetched"]
    /\ UNCHANGED <<store, pendingAcks, now, arrived, acct>>
    /\ UNCHANGED <<restore, acked, transport>>

\* TicketDetail.tsx 83-86: api.getPipelineByTicket resolved; the continuation
\* keeps the pipeline in a local, writes nothing, and requests the pipeline's
\* steps.  It is not counted as an event of the clock
PipelineByTicketFetched ==
    /\ Len(loads) > 0
    /\ \E i \in 1..Len(loads), snap \in Snapshots :
        /\ loads[i].stage = "pipeline"
        /\ Advance(i, [stage |-> "steps", pipeline |-> snap.pipeline])
    /\ prev' = store
    /\ lastOp' = [type |-> "pipeline_by_ticket_fetched"]
    /\ UNCHANGED <<store, pendingAcks, now, arrived, acct>>
    /\ UNCHANGED <<restore, acked, transport, page>>

\* TicketDetail.tsx 86-106: api.getPipelineSteps resolved with the steps the
\* server holds by then, which need not be those of the moment the pipeline
\* was read; the pipeline kept by the load and these steps are installed, and
\* the step outputs are requested unless the pipeline is pending, which ends
\* the load (finally, 113-115)
PipelineFetched ==
    /\ now < MaxEvents
    /\ \E i \in 1..Len(loads), snap \in Snapshots :
        /\ loads[i].stage = "steps"
        /\ store' = installPipeline(store, loads[i].pipeline, snap.steps)
        /\ Advance(i, NextLoadStage(loads[i].pipeline))
        /\ now' = now + 1
        /\ prev' = store
        /\ lastOp' = [type |-> "pipeline_fetched",
                      snapshot |-> [pipeline |-> loads[i].pipeline,
                                    steps |-> snap.steps]]
        /\ acct' = [tokens |-> loads[i].pipeline.total_tokens,
                    cost |-> loads[i].pipeline.total_cost]
        /\ page' = PageOf(i, PageAfter(page, NextLoadStage(loads[i].pipeline)))
        /\ UNCHANGED <<pendingAcks, arrived>>
        /\ UNCHANGED <<restore, acked, transport>>

\* TicketDetail.tsx 107-115: getPipelineByTicket rejected (no pipeline for
\* this ticket, or the fetch failed), or getPipelineSteps rejected after the
\* pipeline had arrived; the inner catch clears the pipeline and the load ends
PipelineFetchFailed ==
    /\ now < MaxEvents
    /\ \E i \in 1..Len(loads) :
        /\ loads[i].stage \in {"pipeline", "steps"}
        /\ store' = setCurrentPipeline(store, Null)
        /\ Advance(i, Null)
        /\ now' = now + 1
        /\ prev' = store
        /\ lastOp' = [type |-> "pipeline_fetch_failed", stage |-> loads[i].stage]
        /\ acct' = Null
        /\ page' = PageOf(i, [page EXCEPT !.loading = FALSE])
        /\ UNCHANGED <<pendingAcks, arrived>>
        /\ UNCHANGED <<restore, acked, transport>>

\* TicketDetail.tsx 111-115: getTicket rejected; the outer catch sets the
\* page's error and writes nothing to the store
TicketFetchFailed ==
    /\ now < MaxEvents
    /\ \E i \in 1..Len(loads) :
        /\ loads[i].stage = "ticket"
        /\ Advance(i, Null)
        /\ now' = now + 1
        /\ prev' = store
        /\ lastOp' = [type |-> "ticket_fetch_failed"]
        /\ page' = PageOf(i, [page EXCEPT !.error = TRUE, !.loading = FALSE])
        /\ UNCHANGED <<store, pendingAcks, arrived, acct>>
        /\ UNCHANGED <<restore, acked, transport>>


\* GET /pipelines/:id/outputs: what the server may hold for one step
StructuredStepData ==
    [content |-> "Hello",
     events |-> << [type |-> "text", content |-> "Hello",
                    timestamp |-> "2026-01-01T00:00:00Z"],
                   [type |-> "tool_call", tool |-> "Task", arguments |-> [q |-> "x"],
                    timestamp |-> "2026-01-01T00:00:01Z"] >>,
     tool_calls |-> << [tool |-> "Task", arguments |-> "{\"q\":\"x\"}",
                        tool_use_id |-> "t1",
                        timestamp |-> "2026-01-01T00:00:01Z"] >>]

LegacyStepData ==
    [content |-> "old",
     events |-> <<>>,
     tool_calls |-> << [tool |-> "Search", arguments |-> "{}",
                        tool_use_id |-> Undefined,
                        timestamp |-> "2025-01-01T00:00:00Z"] >>]

\* a step whose second persisted tool call has an arguments string that is
\* not JSON: JSON.parse throws on it (TicketDetail.tsx 145)
MalformedStepData ==
    [content |-> "cut",
     events |-> <<>>,
     tool_calls |-> << [tool |-> "Read", arguments |-> "{}",
                        tool_use_id |-> "t3",
                        timestamp |-> "2026-01-01T00:00:03Z"],
                       [tool |-> "Bash", arguments |-> "{\"q\":",
                        tool_use_id |-> "t4",
                        timestamp |-> "2026-01-01T00:00:04Z"] >>]

OutputsResponses ==
    { [steps |-> f] :
        f \in UNION { [D -> {StructuredStepData, LegacyStepData, MalformedStepData}] :
                        D \in SUBSET StepNums } }

\* GET /pipelines/:id/subagent-tool-calls
SubagentCall(n, parent, id) ==
    [step_number |-> n, parent_tool_use_id |-> parent, tool_use_id |-> id,
     tool_name |-> "Read", arguments |-> <<>>, created_at |-> "2026-01-01T00:00:02Z"]

SubagentHistories ==
    { <<>>,
      <<SubagentCall(1, "t1", "u1")>>,
      <<SubagentCall(1, "t1", "u1"), SubagentCall(1, "t1", "u2")>> }

\* TicketDetail.tsx 131-165: the batch step-output response arrived
OutputsFetched ==
    /\ now < MaxEvents
    /\ \E i \in 1..Len(loads), response \in OutputsResponses :
        /\ loads[i].stage = "outputs"
        /\ store' = applyStepOutputs(store, response, loads[i], now)
        /\ Advance(i, [stage |-> "subagents"])
        /\ now' = now + 1
        /\ prev' = store
        /\ lastOp' = [type |-> "outputs_fetched", response |-> response,
                      load |-> loads[i]]
        /\ UNCHANGED <<pendingAcks, arrived, acct>>
        /\ UNCHANGED <<restore, acked, transport, page>>

\* TicketDetail.tsx 163-165: the request failed; nothing is written
OutputsFetchFailed ==
    /\ now < MaxEvents
    /\ \E i \in 1..Len(loads) :
        /\ loads[i].stage = "outputs"
        /\ Advance(i, [stage |-> "subagents"])
        /\ now' = now + 1
        /\ prev' = store
        /\ lastOp' = [type |-> "outputs_fetch_failed"]
        /\ UNCHANGED <<store, pendingAcks, arrived, acct>>
        /\ UNCHANGED <<restore, acked, transport, page>>

\* TicketDetail.tsx 167-203: the batch subagent-call response arrived
SubagentsFetched ==
    /\ now < MaxEvents
    /\ \E i \in 1..Len(loads), history \in SubagentHistories :
        /\ loads[i].stage = "subagents"
        /\ store' = applySubagentHistory(store, history)
        /\ Advance(i, Null)
        /\ now' = now + 1
        /\ prev' = store
        /\ lastOp' = [type |-> "subagents_fetched", history |-> history]
        /\ page' = PageOf(i, [page EXCEPT !.loading = FALSE])
        /\ UNCHANGED <<pendingAcks, arrived, acct>>
        /\ UNCHANGED <<restore, acked, transport>>

\* TicketDetail.tsx 204-206
SubagentsFetchFailed ==
    /\ now < MaxEvents
    /\ \E i \in 1..Len(loads) :
        /\ loads[i].stage = "subagents"
        /\ Advance(i, Null)
        /\ now' = now + 1
        /\ prev' = store
        /\ lastOp' = [type |-> "subagents_fetch_failed"]
        /\ page' = PageOf(i, [page EXCEPT !.loading = FALSE])
        /\ UNCHANGED <<store, pendingAcks, arrived, acct>>
        /\ UNCHANGED <<restore, acked, transport>>

\* subagent_text frames (types/index.ts 136); handleWSMessage has no case for them
SubagentTextMsg(n, parent) ==
    [type |-> "subagent_text", step |-> n, parent_tool_use_id |-> parent,
     text |-> "thinking", timestamp |-> "2026-01-01T00:00:01Z"]

SubagentText ==
    /\ now < MaxEvents
    /\ \E n \in StepNums : Receive(SubagentTextMsg(n, "t1"))

(***************************************************************************)
(* Session / offline replay (store.ts 409-429, 498-516, 814-822)           *)
(***************************************************************************)
EventIds == {"e1", "e2"}

OfflineMsg(id) ==
    [type |-> "offline_event", event_id |-> id, event_type |-> "step_completed",
     pipeline_id |-> PipelineId, data |-> <<>>,
     occurred_at |-> "2026-01-01T00:00:00Z"]

OfflineEvent ==
    /\ now < MaxEvents
    /\ \E id \in EventIds : Receive(OfflineMsg(id))

\* store.ts 416-421: acknowledgeOfflineEvents up to its await; without a
\* session id it returns at once
AckRequest ==
    /\ now < MaxEvents
    /\ \E eventIds \in SUBSET EventIds :
        /\ pendingAcks' = IF store.sessionId = Undefined THEN pendingAcks
                          ELSE pendingAcks (+) SetToBag({eventIds})
        /\ now' = now + 1
        /\ prev' = store
        /\ lastOp' = [type |-> IF store.sessionId = Undefined
                               THEN "ack_skipped" ELSE "ack_request",
                      eventIds |-> eventIds]
        /\ UNCHANGED <<store, loads, arrived, acct>>
        /\ UNCHANGED <<restore, acked, transport, page>>

\* store.ts 422-425: api.acknowledgeEvents resolved
AckSucceeded ==
    /\ now < MaxEvents
    /\ \E eventIds \in BagToSet(pendingAcks) :
        /\ store' = applyAcknowledged(store, eventIds)
        /\ pendingAcks' = pendingAcks (-) SetToBag({eventIds})
        /\ now' = now + 1
        /\ prev' = store
        /\ lastOp' = [type |-> "ack_succeeded", eventIds |-> eventIds]
        /\ UNCHANGED <<loads, arrived, acct>>
        /\ acked' = acked \cup {id \in eventIds :
                \E i \in 1..Len(store.offlineEvents) : store.offlineEvents[i].id = id}
        /\ UNCHANGED <<restore, transport, page>>

\* store.ts 426-428: api.acknowledgeEvents rejected
AckFailed ==
    /\ now < MaxEvents
    /\ \E eventIds \in BagToSet(pendingAcks) :
        /\ pendingAcks' = pendingAcks (-) SetToBag({eventIds})
        /\ now' = now + 1
        /\ prev' = store
        /\ store' = acknowledgeFailed(store, eventIds)
        /\ lastOp' = [type |-> "ack_failed", eventIds |-> eventIds]
        /\ UNCHANGED <<loads, arrived, acct>>
        /\ UNCHANGED <<restore, acked, transport, page>>

\* an event the server recorded while the session was disconnected
MissedEvent(id) ==
    [id |-> id, type |-> "step_completed", pipeline_id |-> PipelineId,
     data |-> <<>>, occurred_at |-> "2026-01-01T00:00:00Z"]

\* GET /session/restore: the server keeps the session id it is asked for and
\* issues one when it is asked for none
Sessions(sessionId) ==
    { [session_id |-> IF sessionId = Undefined THEN "s2" ELSE sessionId,
       tabs |-> <<>>, missed_events |-> <<>>],
      [session_id |-> IF sessionId = Undefined THEN "s2" ELSE sessionId,
       tabs |-> <<[id |-> "tab1", ticket_key |-> "T-1"]>>, active_tab |-> "tab1",
       missed_events |-> <<MissedEvent("e1")>>],
      [session_id |-> IF sessionId = Undefined THEN "s2" ELSE sessionId,
       tabs |-> <<[id |-> "tab1", ticket_key |-> "T-1"]>>,
       missed_events |-> <<MissedEvent("e1"), MissedEvent("e2")>>] }

\* store.ts 504-511: api.restoreSession resolved
SessionRestored ==
    /\ now < MaxEvents
    /\ \E sessionId \in BagToSet(restore) :
        /\ \E session \in Sessions(sessionId) :
            /\ store' = applySession(store, session)
            /\ lastOp' = [type |-> "session_restored", session |-> session]
        /\ restore' = restore (-) SetToBag({sessionId})
    /\ now' = now + 1
    /\ prev' = store
    /\ UNCHANGED <<loads, pendingAcks, arrived, acct, acked, transport, page>>

\* store.ts 512-515: api.restoreSession rejected
RestoreFailed ==
    /\ now < MaxEvents
    /\ \E sessionId \in BagToSet(restore) :
        restore' = restore (-) SetToBag({sessionId})
    /\ now' = now + 1
    /\ prev' = store
    /\ lastOp' = [type |-> "restore_failed"]
    /\ UNCHANGED <<store, loads, pendingAcks, arrived, acct, acked, transport, page>>

\* OfflineEventBanner.tsx 42-44: the user minimizes the banner
MinimizeBanner ==
    /\ now < MaxEvents
    /\ store.showOfflineBanner /\ Len(store.offlineEvents) > 0
    /\ store' = setShowOfflineBanner(store, FALSE)
    /\ now' = now + 1
    /\ prev' = store
    /\ lastOp' = [type |-> "minimize_banner"]
    /\ UNCHANGED <<loads, pendingAcks, arrived, acct>>
    /\ UNCHANGED <<restore, acked, transport, page>>

(***************************************************************************)
(* Pipeline and step lifecycle frames                                      *)
(***************************************************************************)
PipelineFrames ==
    { [type |-> t] : t \in {"pipeline_started", "pipeline_completed",
                            "waiting_for_review", "changes_requested", "pr_approved"} }

WorktreeFrames ==
    { [type |-> t] : t \in {"worktree_session_creating", "worktree_setup_started",
                            "worktree_session_ready", "worktree_session_cleaned"} }
    \cup { [type |-> "pipeline_needs_input", input_type |-> "setup_commands",
            repos |-> <<[name |-> "repo"]>>] }

StepFrames(n) ==
    { [type |-> "pipeline_resumed", step |-> n],
      [type |-> "pipeline_paused", step |-> n],
      [type |-> "pipeline_failed", step |-> n, error |-> "boom"],
      [type |-> "step_skipped", step |-> n, reason |-> "not needed", next_step |-> n + 1],
      [type |-> "clarification_requested", step |-> n, clarification_id |-> "c1",
       question |-> "which?", options |-> <<"x", "y">>],
      [type |-> "clarification_answered", step |-> n, clarification_id |-> "c1",
       answer |-> "x"] }

\* frames whose handler only starts a ticket or review fetch, or does nothing
FetchFrames ==
    { [type |-> t] : t \in {"connected", "sync_complete", "ticket_updated",
                            "review_received", "review_responded",
                            "worktree_pr_merged"} }

\* the frames of the step stream
StreamFrames ==
    UNION { {TokenMsg(n, t) : t \in Tokens}
            \cup {ToolCallMsg(n, u) : u \in ToolUses}
            \cup {StepStartedMsg(n), SubagentMsg(n, "t1")}
            \cup StepCompletedMsgs(n) : n \in StepNums }

\* useAuth.ts 210-217: every frame is handed to handleWSMessage, whatever
\* the store holds
PipelineFrame ==
    /\ now < MaxEvents
    /\ \E m \in PipelineFrames : Receive(m)

WorktreeFrame ==
    /\ now < MaxEvents
    /\ \E m \in WorktreeFrames : Receive(m)

StepFrame ==
    /\ now < MaxEvents
    /\ \E n \in StepNums : \E m \in StepFrames(n) : Receive(m)

FetchFrame ==
    /\ now < MaxEvents
    /\ \E m \in FetchFrames : Receive(m)

\* clarification frames (types/index.ts 141-142): two clarifications per
\* step, asked with and without the optional context
ClarificationIds == {"c1", "c2"}

ClarificationFrames ==
    UNION { { [type |-> "clarification_requested", step |-> n, clarification_id |-> c,
               question |-> "which?", options |-> <<"x", "y">>],
              [type |-> "clarification_requested", step |-> n, clarification_id |-> c,
               question |-> "which?", options |-> <<"x", "y">>, context |-> "ctx"],
              [type |-> "clarification_answered", step |-> n, clarification_id |-> c,
               answer |-> "x"] } : n \in StepNums, c \in ClarificationIds }

ClarificationFrame ==
    /\ now < MaxEvents
    /\ \E m \in ClarificationFrames : Receive(m)

\* the page renders its ticket view (TicketDetail.tsx 253-281: not loading,
\* no error, a ticket)
PageShown == ~page.loading /\ ~page.error /\ page.ticket

\* store.ts 358
clearPendingClarification(s) == [s EXCEPT !.pendingClarification = Null]

\* TicketDetail.tsx 371-373, ClarificationPrompt.tsx 34-53: the prompt is on
\* the page while the pipeline waits for review with a clarification pending;
\* handleSubmit with an answer chosen requests api.answerClarification
SubmitClarification ==
    /\ now < MaxEvents
    /\ PageShown
    /\ store.currentPipeline # Null
    /\ store.currentPipeline.status = "waiting_for_review"
    /\ store.pendingClarification # Null
    /\ loads' = Append(loads, [stage |-> "clarification",
                               id |-> store.pendingClarification.id])
    /\ now' = now + 1
    /\ prev' = store
    /\ lastOp' = [type |-> "submit_clarification"]
    /\ UNCHANGED <<store, pendingAcks, arrived, acct>>
    /\ UNCHANGED <<restore, acked, transport, page>>

\* ClarificationPrompt.tsx 49-54: api.answerClarification resolved; whatever
\* clarification is pending by then is cleared, and the pipeline and its
\* steps are left as they are.  Not counted as an event of the clock
ClarificationSubmitted ==
    /\ Len(loads) > 0
    /\ \E i \in 1..Len(loads) :
        /\ loads[i].stage = "clarification"
        /\ lastOp' = [type |-> "clarification_submitted", id |-> loads[i].id]
        /\ Advance(i, Null)
    /\ store' = clearPendingClarification(store)
    /\ prev' = store
    /\ UNCHANGED <<pendingAcks, now, arrived, acct>>
    /\ UNCHANGED <<restore, acked, transport, page>>

\* ClarificationPrompt.tsx 55-56: api.answerClarification rejected; the
\* prompt shows its own error and the store is not written
ClarificationSubmitFailed ==
    /\ Len(loads) > 0
    /\ \E i \in 1..Len(loads) :
        /\ loads[i].stage = "clarification"
        /\ lastOp' = [type |-> "clarification_submit_failed", id |-> loads[i].id]
        /\ Advance(i, Null)
    /\ prev' = store
    /\ UNCHANGED <<store, pendingAcks, now, arrived, acct>>
    /\ UNCHANGED <<restore, acked, transport, page>>

\* GET /pipelines/:id/pr: the pull request of the pipeline (types/index.ts 227)
PullRequest == [id |-> "pr1", pr_number |-> 5, status |-> "open"]

\* store.ts 388-394: api.getPipelineReviews resolved; the comments and the
\* iterations it sets are not among the modelled fields, and getPipelinePR
\* is requested
ReviewsFetched ==
    /\ now < MaxEvents
    /\ \E i \in 1..Len(loads) :
        /\ loads[i].stage = "reviews"
        /\ Advance(i, [stage |-> "pr"])
    /\ now' = now + 1
    /\ prev' = store
    /\ lastOp' = [type |-> "reviews_fetched"]
    /\ UNCHANGED <<store, pendingAcks, arrived, acct>>
    /\ UNCHANGED <<restore, acked, transport, page>>

\* store.ts 404-406: api.getPipelineReviews rejected; the catch only logs
ReviewsFetchFailed ==
    /\ now < MaxEvents
    /\ \E i \in 1..Len(loads) :
        /\ loads[i].stage = "reviews"
        /\ Advance(i, Null)
    /\ now' = now + 1
    /\ prev' = store
    /\ lastOp' = [type |-> "reviews_fetch_failed"]
    /\ UNCHANGED <<store, pendingAcks, arrived, acct>>
    /\ UNCHANGED <<restore, acked, transport, page>>

\* store.ts 396-399: api.getPipelinePR resolved
PRFetched ==
    /\ now < MaxEvents
    /\ \E i \in 1..Len(loads) :
        /\ loads[i].stage = "pr"
        /\ Advance(i, Null)
    /\ store' = setCurrentPR(store, PullRequest)
    /\ now' = now + 1
    /\ prev' = store
    /\ lastOp' = [type |-> "pr_fetched"]
    /\ UNCHANGED <<pendingAcks, arrived, acct>>
    /\ UNCHANGED <<restore, acked, transport, page>>

\* store.ts 400-403: api.getPipelinePR rejected
PRFetchFailed ==
    /\ now < MaxEvents
    /\ \E i \in 1..Len(loads) :
        /\ loads[i].stage = "pr"
        /\ Advance(i, Null)
    /\ store' = setCurrentPR(store, Null)
    /\ now' = now + 1
    /\ prev' = store
    /\ lastOp' = [type |-> "pr_fetch_failed"]
    /\ UNCHANGED <<pendingAcks, arrived, acct>>
    /\ UNCHANGED <<restore, acked, transport, page>>

\* TicketDetail.tsx 209-213, 305-309: the user presses Start Pipeline, shown
\* while no pipeline is loaded; api.createPipeline is requested
CreatePipeline ==
    /\ now < MaxEvents
    /\ PageShown
    /\ store.currentPipeline = Null
    /\ loads' = Append(loads, [stage |-> "create", mounted |-> TRUE])
    /\ now' = now + 1
    /\ prev' = store
    /\ lastOp' = [type |-> "create_pipeline"]
    /\ UNCHANGED <<store, pendingAcks, arrived, acct>>
    /\ UNCHANGED <<restore, acked, transport, page>>

\* TicketDetail.tsx 213-216: api.createPipeline resolved with a pending
\* pipeline; getPipelineSteps is requested
PipelineCreated ==
    /\ now < MaxEvents
    /\ \E i \in 1..Len(loads) :
        /\ loads[i].stage = "create"
        /\ Advance(i, [stage |-> "create_steps"])
    /\ store' = setCurrentPipeline(store, ServerPipeline("pending", 1, 0, 0))
    /\ now' = now + 1
    /\ prev' = store
    /\ lastOp' = [type |-> "pipeline_created"]
    /\ acct' = [tokens |-> 0, cost |-> 0]
    /\ UNCHANGED <<pendingAcks, arrived>>
    /\ UNCHANGED <<restore, acked, transport, page>>

\* TicketDetail.tsx 216-217: the steps of the created pipeline arrived
CreatedStepsFetched ==
    /\ now < MaxEvents
    /\ \E i \in 1..Len(loads) :
        /\ loads[i].stage = "create_steps"
        /\ Advance(i, Null)
    /\ store' = setCurrentSteps(store, ServerSteps("pending", 1))
    /\ now' = now + 1
    /\ prev' = store
    /\ lastOp' = [type |-> "created_steps_fetched"]
    /\ UNCHANGED <<pendingAcks, arrived, acct>>
    /\ UNCHANGED <<restore, acked, transport, page>>

\* TicketDetail.tsx 218-220: createPipeline or getPipelineSteps rejected; the
\* catch sets the page's error
CreateFailed ==
    /\ now < MaxEvents
    /\ \E i \in 1..Len(loads) :
        /\ loads[i].stage \in {"create", "create_steps"}
        /\ Advance(i, Null)
        /\ page' = PageOf(i, [page EXCEPT !.error = TRUE])
    /\ now' = now + 1
    /\ prev' = store
    /\ lastOp' = [type |-> "create_failed"]
    /\ UNCHANGED <<store, pendingAcks, arrived, acct>>
    /\ UNCHANGED <<restore, acked, transport>>

\* PipelineControls (unnamed/part_003 16-77), rendered with the pipeline's
\* status (TicketDetail.tsx 357-362): the callbacks its buttons offer.  Start
\* while pending, Pause while running, Resume while paused, Retry, which is
\* onStart again, while failed; no button in any other status
Controls(status) ==
    CASE status = "pending" -> {"start"}
      [] status = "running" -> {"pause"}
      [] status = "paused" -> {"resume"}
      [] status = "failed" -> {"start"}
      [] OTHER -> {}

\* TicketDetail.tsx 223-251: handleStart, handlePause and handleResume, called
\* by the button on the page; each returns when no pipeline is loaded and
\* otherwise requests the operation of the server
ControlPipeline ==
    /\ now < MaxEvents
    /\ PageShown
    /\ store.currentPipeline # Null
    /\ \E control \in Controls(store.currentPipeline.status) :
        /\ loads' = Append(loads, [stage |-> "control", control |-> control,
                                   mounted |-> TRUE])
        /\ lastOp' = [type |-> "control_pipeline", control |-> control]
    /\ now' = now + 1
    /\ prev' = store
    /\ UNCHANGED <<store, pendingAcks, arrived, acct>>
    /\ UNCHANGED <<restore, acked, transport, page>>

\* TicketDetail.tsx 226, 236, 246: the request resolved; the callback writes
\* nothing (the new status comes with the socket's frames).  Not counted as
\* an event of the clock
PipelineControlled ==
    /\ Len(loads) > 0
    /\ \E i \in 1..Len(loads) :
        /\ loads[i].stage = "control"
        /\ lastOp' = [type |-> "pipeline_controlled", control |-> loads[i].control]
        /\ Advance(i, Null)
    /\ prev' = store
    /\ UNCHANGED <<store, pendingAcks, now, arrived, acct>>
    /\ UNCHANGED <<restore, acked, transport, page>>

\* TicketDetail.tsx 227-229, 237-239, 247-249: the request rejected; the
\* catch sets the page's error
ControlFailed ==
    /\ now < MaxEvents
    /\ \E i \in 1..Len(loads) :
        /\ loads[i].stage = "control"
        /\ lastOp' = [type |-> "control_failed", control |-> loads[i].control]
        /\ Advance(i, Null)
        /\ page' = PageOf(i, [page EXCEPT !.error = TRUE])
    /\ now' = now + 1
    /\ prev' = store
    /\ UNCHANGED <<store, pendingAcks, arrived, acct>>
    /\ UNCHANGED <<restore, acked, transport>>

\* UserInputPrompt.tsx 27-40, 136-142 (rendered by TicketDetail.tsx 367-369):
\* the user submits or skips the setup commands; api.provideUserInput is
\* requested
SubmitUserInput ==
    /\ now < MaxEvents
    /\ PageShown
    /\ store.currentPipeline # Null
    /\ store.currentPipeline.status = "needs_user_input"
    /\ store.userInputRequest # Null
    /\ loads' = Append(loads, [stage |-> "user_input"])
    /\ now' = now + 1
    /\ prev' = store
    /\ lastOp' = [type |-> "submit_user_input"]
    /\ UNCHANGED <<store, pendingAcks, arrived, acct>>
    /\ UNCHANGED <<restore, acked, transport, page>>

\* store.ts 354: clearUserInputRequest
clearUserInputRequest(s) == [s EXCEPT !.userInputRequest = Null]

\* UserInputPrompt.tsx 41, 143: api.provideUserInput resolved
UserInputProvided ==
    /\ now < MaxEvents
    /\ \E i \in 1..Len(loads) :
        /\ loads[i].stage = "user_input"
        /\ Advance(i, Null)
    /\ store' = clearUserInputRequest(store)
    /\ now' = now + 1
    /\ prev' = store
    /\ lastOp' = [type |-> "user_input_provided"]
    /\ UNCHANGED <<pendingAcks, arrived, acct>>
    /\ UNCHANGED <<restore, acked, transport, page>>

\* UserInputPrompt.tsx 42-43, 144: api.provideUserInput rejected; the prompt
\* shows its own error and the store is not written
UserInputFailed ==
    /\ now < MaxEvents
    /\ \E i \in 1..Len(loads) :
        /\ loads[i].stage = "user_input"
        /\ Advance(i, Null)
    /\ now' = now + 1
    /\ prev' = store
    /\ lastOp' = [type |-> "user_input_failed"]
    /\ UNCHANGED <<store, pendingAcks, arrived, acct>>
    /\ UNCHANGED <<restore, acked, transport, page>>

(***************************************************************************)
(* Connection Manager (useWebSocket, hooks/useAuth.ts 161-301)             *)
(***************************************************************************)
\* number of WebSocket objects the hook creates
MaxSockets == 3

\* the messages callers hand to send()
OutMessages == { [type |-> "subscribe", ticket |-> "T-1"],
                 [type |-> "unsubscribe", ticket |-> "T-1"] }

\* the refs of the hook and the sockets they point to, as one value
Hook ==
    [sockets |-> sockets, wsRef |-> wsRef,
     reconnectTimeoutRef |-> reconnectTimeoutRef,
     heartbeatIntervalRef |-> heartbeatIntervalRef, wire |-> wire]

\* the hook's refs, sockets and transmissions after a callback
SetHook(h) ==
    /\ sockets' = h.sockets
    /\ wsRef' = h.wsRef
    /\ reconnectTimeoutRef' = h.reconnectTimeoutRef
    /\ heartbeatIntervalRef' = h.heartbeatIntervalRef
    /\ wire' = h.wire

\* wsRef.current?.readyState
ReadyState(h) == IF h.wsRef = 0 THEN Undefined ELSE h.sockets[h.wsRef].readyState

\* the sockets that are CONNECTING or OPEN
LiveSockets(socks) ==
    {i \in 1..Len(socks) : socks[i].readyState \in {"CONNECTING", "OPEN"}}

\* useAuth.ts 176-185
cleanup(h) ==
    [h EXCEPT !.reconnectTimeoutRef = NoTimer, !.heartbeatIntervalRef = NoTimer]

\* a connect() without the guard on the current socket's state
connect_Unguarded(h, throws) ==
    IF throws
    THEN [cleanup(h) EXCEPT !.reconnectTimeoutRef = Timer("pending", RECONNECT_DELAY)]
    ELSE [cleanup(h) EXCEPT
            !.sockets = Append(@, [readyState |-> "CONNECTING", closeCalled |-> FALSE]),
            !.wsRef = Len(h.sockets) + 1]

\* useAuth.ts 187-238: connect(); `throws` tells whether new WebSocket() throws
connect(h, throws) ==
    IF ReadyState(h) \in {"OPEN", "CONNECTING"} THEN h
    ELSE IF throws
    THEN [cleanup(h) EXCEPT !.reconnectTimeoutRef = Timer("pending", RECONNECT_DELAY)]
    ELSE [cleanup(h) EXCEPT
            !.sockets = Append(@, [readyState |-> "CONNECTING", closeCalled |-> FALSE]),
            !.wsRef = Len(h.sockets) + 1]

\* WebSocket.close(): a socket that is not yet closed starts closing
close(socket) ==
    [socket EXCEPT !.readyState = IF @ \in {"CONNECTING", "OPEN"} THEN "CLOSING" ELSE @,
                   !.closeCalled = TRUE]

\* useAuth.ts 240-253
disconnect(h) ==
    LET h1 == cleanup(h)
    IN  IF h1.wsRef = 0 THEN h1
        ELSE [h1 EXCEPT
                !.wire = IF ReadyState(h1) = "OPEN"
                         THEN @ \cup {[type |-> "client_disconnecting"]} ELSE @,
                !.sockets[h1.wsRef] = close(@),
                !.wsRef = 0]

\* a send() that transmits whatever the socket's state
send_Always(h, message) == [h EXCEPT !.wire = @ \cup {message}]

\* useAuth.ts 255-259
send(h, message) ==
    IF ReadyState(h) = "OPEN" THEN [h EXCEPT !.wire = @ \cup {message}] ELSE h

\* useAuth.ts 198-208: onopen starts the heartbeat interval
onopen(h) == [h EXCEPT !.heartbeatIntervalRef = Timer("active", HEARTBEAT_INTERVAL)]

\* a close callback that cleans up and schedules nothing
onclose_NoRetry(h) == cleanup(h)

\* useAuth.ts 219-226: onclose cleans up and schedules the reconnect timer
onclose(h) == [cleanup(h) EXCEPT !.reconnectTimeoutRef = Timer("pending", RECONNECT_DELAY)]

\* useAuth.ts 202-206: the heartbeat interval's callback
heartbeat(h) ==
    IF ReadyState(h) = "OPEN" THEN [h EXCEPT !.wire = @ \cup {[type |-> "ping"]}] ELSE h

\* useAuth.ts 283-292: handleBeforeUnload tells the server the client is
\* leaving when the current socket is open; it closes nothing
handleBeforeUnload(h) ==
    IF ReadyState(h) = "OPEN"
    THEN [h EXCEPT !.wire = @ \cup {[type |-> "client_disconnecting"]}] ELSE h

\* a visibility handler that leaves reconnection to the timer
handleVisibilityChange_Wait(h, throws) == h

\* useAuth.ts 269-273: handleVisibilityChange once the page is visible
handleVisibilityChange(h, throws) ==
    IF ReadyState(h) # "OPEN" THEN connect(h, throws) ELSE h

\* connect() called on `h` gets past its guard and reaches new WebSocket()
Attempts(h) == ReadyState(h) \notin {"OPEN", "CONNECTING"}

\* new WebSocket() may throw; when it returns, the model has room for the socket
CanConstruct(h, throws) == throws \/ Len(h.sockets) < MaxSockets

\* frames as the server's text: JSON.parse accepts these, and throws on any other
ValidFrameJSON ==
    { "{\"type\":\"token\",\"step\":1,\"token\":\"Hel\"}",
      "{\"type\":\"pong\"}",
      "{\"type\":\"bogus_type\"}",
      "null" }

\* frames that arrive on the socket, well-formed or not
RawFrames == ValidFrameJSON \cup {"{\"type\":\"token\",", "not json"}

\* JSON.parse(event.data) for the texts of ValidFrameJSON
FrameJSONparse(data) ==
    CASE data = "{\"type\":\"token\",\"step\":1,\"token\":\"Hel\"}" -> TokenMsg(1, "Hel")
      [] data = "{\"type\":\"pong\"}" -> [type |-> "pong"]
      [] data = "{\"type\":\"bogus_type\"}" -> [type |-> "bogus_type"]
      [] data = "null" -> Null

\* the type discriminators handleWSMessage has a case for (store.ts 523-814)
HandledTypes ==
    {"pipeline_started", "pipeline_resumed", "token", "step_started",
     "tool_call_started", "subagent_tool_call", "step_completed",
     "pipeline_completed", "pipeline_paused", "pipeline_failed", "step_skipped",
     "sync_complete", "ticket_updated", "worktree_session_creating",
     "worktree_setup_started", "worktree_session_ready", "pipeline_needs_input",
     "worktree_pr_merged", "worktree_session_cleaned", "clarification_requested",
     "clarification_answered", "waiting_for_review", "review_received",
     "review_responded", "pr_approved", "changes_requested", "offline_event"}

\* an onmessage without the try/catch around its body
onmessage_NoCatch(s, data, ms) ==
    IF data \notin ValidFrameJSON \/ FrameJSONparse(data) = Null
    THEN [store |-> s, escaped |-> TRUE]
    ELSE [store |-> handleWSMessage(s, FrameJSONparse(data), ms), escaped |-> FALSE]

\* useAuth.ts 210-217: onmessage parses the frame and hands it to
\* handleWSMessage inside one try block; JSON.parse throws on malformed text
\* and handleWSMessage throws on `message.type` when the text was `null`, and
\* the catch block logs either
onmessage(s, data, ms) ==
    IF data \notin ValidFrameJSON \/ FrameJSONparse(data) = Null
    THEN [store |-> s, escaped |-> FALSE]
    ELSE [store |-> handleWSMessage(s, FrameJSONparse(data), ms), escaped |-> FALSE]

\* App.tsx 12-19, 52-65: the effect of a mounted App calls connect() and then
\* restoreSession() in one task; restoreSession (store.ts 498-502) reads the
\* persisted session id and awaits api.restoreSession.  The effect of
\* App.tsx 12-19 has no guard: when it runs again (React.StrictMode runs it
\* twice) the session is requested again while a request is in flight
Connect ==
    /\ now < MaxEvents
    /\ BagCardinality(restore) < MaxRestores
    /\ Len(sockets) <= MaxSockets
    /\ \E throws \in BOOLEAN :
        /\ Attempts(Hook) => CanConstruct(Hook, throws)
        /\ SetHook(connect(Hook, throws))
    /\ restore' = restore (+) SetToBag({store.sessionId})
    /\ now' = now + 1
    /\ lastOp' = [type |-> "connect", attempt |-> Attempts(Hook)]
    /\ prev' = store
    /\ UNCHANGED <<store, loads, pendingAcks, arrived, acct, acked, dropped, page>>

\* useAuth.ts 261-266: disconnect() runs when the hook's component unmounts
\* (and for any caller of the hook)
Disconnect ==
    /\ Len(sockets) <= MaxSockets
    /\ SetHook(disconnect(Hook))
    /\ lastOp' = [type |-> "disconnect"]
    /\ prev' = store
    /\ UNCHANGED <<store, loads, pendingAcks, now, arrived, acct, restore, acked, dropped, page>>

\* useAuth.ts 255-259: a caller sends a message it has not sent before
Send ==
    /\ Len(sockets) <= MaxSockets
    /\ \E message \in OutMessages \ (wire \cup dropped) :
        /\ SetHook(send(Hook, message))
        /\ dropped' = IF ReadyState(Hook) = "OPEN" THEN dropped
                      ELSE dropped \cup {message}
        /\ lastOp' = [type |-> "send", message |-> message,
                      open |-> ReadyState(Hook) = "OPEN"]
    /\ prev' = store
    /\ UNCHANGED <<store, loads, pendingAcks, now, arrived, acct, restore, acked, page>>

\* useAuth.ts 294-297: the window's beforeunload event
BeforeUnload ==
    /\ Len(sockets) <= MaxSockets
    /\ SetHook(handleBeforeUnload(Hook))
    /\ lastOp' = [type |-> "beforeunload"]
    /\ prev' = store
    /\ UNCHANGED <<store, loads, pendingAcks, now, arrived, acct, restore, acked, dropped, page>>

\* the connection of socket i is established: readyState OPEN, then onopen
SocketOpened ==
    /\ Len(sockets) > 0
    /\ \E i \in 1..Len(sockets) :
        /\ sockets[i].readyState = "CONNECTING"
        /\ SetHook(onopen([Hook EXCEPT !.sockets[i].readyState = "OPEN"]))
        /\ lastOp' = [type |-> "onopen", socket |-> i]
    /\ prev' = store
    /\ UNCHANGED <<store, loads, pendingAcks, now, arrived, acct, restore, acked, dropped, page>>

\* the server starts the closing handshake of socket i: readyState CLOSING
RemoteClosing ==
    /\ Len(sockets) > 0
    /\ \E i \in 1..Len(sockets) :
        /\ sockets[i].readyState = "OPEN"
        /\ SetHook([Hook EXCEPT !.sockets[i].readyState = "CLOSING"])
        /\ lastOp' = [type |-> "closing", socket |-> i]
    /\ prev' = store
    /\ UNCHANGED <<store, loads, pendingAcks, now, arrived, acct, restore, acked, dropped, page>>

\* the connection of socket i is gone (failed, dropped or closed): readyState
\* CLOSED, then onerror (which only logs) and onclose
SocketClosed ==
    /\ Len(sockets) > 0
    /\ \E i \in 1..Len(sockets) :
        /\ sockets[i].readyState # "CLOSED"
        /\ SetHook(onclose([Hook EXCEPT !.sockets[i].readyState = "CLOSED"]))
        /\ lastOp' = [type |-> "onclose", socket |-> i,
                      closeCalled |-> sockets[i].closeCalled]
    /\ prev' = store
    /\ UNCHANGED <<store, loads, pendingAcks, now, arrived, acct, restore, acked, dropped, page>>

\* useAuth.ts 223-225, 232-234: the reconnect timer fires and calls connect()
ReconnectTimerFired ==
    /\ reconnectTimeoutRef.state = "pending"
    /\ \E throws \in BOOLEAN :
        /\ Attempts(Hook) => CanConstruct(Hook, throws)
        /\ SetHook(connect([Hook EXCEPT !.reconnectTimeoutRef.state = "fired"], throws))
    /\ lastOp' = [type |-> "reconnect_timer", attempt |-> Attempts(Hook)]
    /\ prev' = store
    /\ UNCHANGED <<store, loads, pendingAcks, now, arrived, acct, restore, acked, dropped, page>>

\* useAuth.ts 269-273: the page becomes visible
VisibilityChanged ==
    /\ Len(sockets) <= MaxSockets
    /\ \E throws \in BOOLEAN :
        /\ Attempts(Hook) => CanConstruct(Hook, throws)
        /\ SetHook(handleVisibilityChange(Hook, throws))
    /\ lastOp' = [type |-> "visibility", attempt |-> Attempts(Hook)]
    /\ prev' = store
    /\ UNCHANGED <<store, loads, pendingAcks, now, arrived, acct, restore, acked, dropped, page>>

\* useAuth.ts 202-206: the heartbeat interval fires
HeartbeatFired ==
    /\ heartbeatIntervalRef.state = "active"
    /\ SetHook(heartbeat(Hook))
    /\ lastOp' = [type |-> "heartbeat"]
    /\ prev' = store
    /\ UNCHANGED <<store, loads, pendingAcks, now, arrived, acct, restore, acked, dropped, page>>

\* useAuth.ts 210-217: a frame arrives on the open socket
Frame ==
    /\ now < MaxEvents
    /\ ReadyState(Hook) = "OPEN"
    /\ \E data \in RawFrames :
        LET outcome == onmessage(store, data, now)
            message == IF data \in ValidFrameJSON THEN FrameJSONparse(data) ELSE Null
        IN  /\ store' = outcome.store
            /\ lastOp' = [type |-> "frame", data |-> data, escaped |-> outcome.escaped]
            /\ arrived' = IF message = Null THEN arrived ELSE ArrivedAfter(message)
            /\ acct' = IF message = Null THEN acct ELSE AcctAfter(message)
    /\ now' = now + 1
    /\ prev' = store
    /\ UNCHANGED <<loads, pendingAcks, restore, acked, transport, page>>

(***************************************************************************)
(* Frames addressed to a pipeline (types/index.ts 124-157: pipeline_id)    *)
(***************************************************************************)
\* the pipeline of the current view and another pipeline of the same server
PipelineIds == {PipelineId, "p2"}

\* frame `m` as the server sends it for pipeline `id`
OfPipeline(m, id) ==
    [f \in DOMAIN m \cup {"pipeline_id"} |-> IF f = "pipeline_id" THEN id ELSE m[f]]

\* a pipeline or step-stream frame arrives, for the loaded pipeline or for another
\* one, with or without a pipeline loaded
AddressedFrame ==
    /\ now < MaxEvents
    /\ \E id \in PipelineIds :
        \E m \in PipelineFrames \cup StreamFrames :
            Receive(OfPipeline(m, id))

(***************************************************************************)
(* Specifications                                                          *)
(***************************************************************************)
\* the step event reducer under socket frames alone
NextStream ==
    \/ Token
    \/ ToolCallStarted
    \/ StepStarted
    \/ StepCompleted
    \/ SubagentToolCall

SpecStream == Init /\ [][NextStream]_vars

\* reconciliation against the live stream
NextRecon ==
    \/ TicketEffect
    \/ TicketFetched
    \/ PipelineByTicketFetched
    \/ PipelineFetched
    \/ PipelineFetchFailed
    \/ TicketFetchFailed
    \/ OutputsFetched
    \/ OutputsFetchFailed
    \/ SubagentsFetched
    \/ SubagentsFetchFailed
    \/ Token
    \/ ToolCallStarted
    \/ StepStarted
    \/ StepCompleted
    \/ SubagentToolCall

SpecRecon == Init /\ [][NextRecon]_vars

\* the offline-event queue
NextOffline ==
    \/ OfflineEvent
    \/ AckRequest
    \/ AckSucceeded
    \/ AckFailed
    \/ MinimizeBanner
    \/ Connect
    \/ SessionRestored
    \/ RestoreFailed

SpecOffline == Init /\ [][NextOffline]_vars

\* the subagent tracker: live subagent frames of both kinds, step restarts and
\* the bulk load of the subagent history
NextSubagents ==
    \/ SubagentToolCall
    \/ SubagentText
    \/ StepStarted
    \/ TicketEffect
    \/ TicketFetched
    \/ PipelineByTicketFetched
    \/ PipelineFetched
    \/ OutputsFetchFailed
    \/ SubagentsFetched

SpecSubagents == Init /\ [][NextSubagents]_vars

\* the connection manager with its callers, its timers and the socket's events
NextTransport ==
    \/ Connect
    \/ Disconnect
    \/ Send
    \/ SocketOpened
    \/ RemoteClosing
    \/ SocketClosed
    \/ ReconnectTimerFired
    \/ VisibilityChanged
    \/ HeartbeatFired
    \/ BeforeUnload

SpecTransport == Init /\ [][NextTransport]_vars

\* frames arriving on a connection that opens, drops and is re-established
NextFrames ==
    \/ Connect
    \/ SocketOpened
    \/ SocketClosed
    \/ ReconnectTimerFired
    \/ Frame

SpecFrames == Init /\ [][NextFrames]_vars

\* connections and drops alone; a pending reconnect timer eventually fires
NextReconnect ==
    \/ Connect
    \/ Disconnect
    \/ SocketOpened
    \/ RemoteClosing
    \/ SocketClosed
    \/ ReconnectTimerFired
    \/ VisibilityChanged

SpecReconnect == Init /\ [][NextReconnect]_vars /\ WF_vars(ReconnectTimerFired)

\* the page in the middle of a load: the ticket effect has run and the
\* pipeline, found running, has been installed with its steps; the batch
\* requests are in flight and the clock starts over
InitLoading ==
    /\ \E snap \in {sn \in Snapshots : sn.pipeline.status = "running"} :
        /\ prev = clearPreviousTicket(InitStore("s1"))
        /\ store = installPipeline(prev, snap.pipeline, snap.steps)
        /\ loads = <<NextLoadStage(snap.pipeline) @@ [mounted |-> TRUE]>>
        /\ lastOp = [type |-> "pipeline_fetched", snapshot |-> snap]
        /\ acct = [tokens |-> snap.pipeline.total_tokens,
                   cost |-> snap.pipeline.total_cost]
    /\ pendingAcks = EmptyBag
    /\ now = 0
    /\ arrived = [n \in StepNums |-> ""]
    /\ restore = EmptyBag
    /\ acked = {}
    /\ sockets = <<>>
    /\ wsRef = 0
    /\ reconnectTimeoutRef = NoTimer
    /\ heartbeatIntervalRef = NoTimer
    /\ wire = {}
    /\ dropped = {}
    /\ page = [ticket |-> TRUE, loading |-> TRUE, error |-> FALSE]

\* the page showing a ticket once its load has ended, the clock starting
\* over: the ticket's pipeline is running (both batch requests failed, which
\* writes nothing), or the ticket has no pipeline
InitViewing ==
    /\ \/ \E snap \in {sn \in Snapshots : sn.pipeline.status = "running"} :
            /\ prev = installPipeline(clearPreviousTicket(InitStore("s1")),
                                      snap.pipeline, snap.steps)
            /\ acct = [tokens |-> snap.pipeline.total_tokens,
                       cost |-> snap.pipeline.total_cost]
            /\ lastOp = [type |-> "subagents_fetch_failed"]
       \/ /\ prev = setCurrentPipeline(clearPreviousTicket(InitStore("s1")), Null)
          /\ acct = Null
          /\ lastOp = [type |-> "pipeline_fetch_failed", stage |-> "pipeline"]
    /\ store = prev
    /\ loads = <<>>
    /\ pendingAcks = EmptyBag
    /\ now = 0
    /\ arrived = [n \in StepNums |-> ""]
    /\ restore = EmptyBag
    /\ acked = {}
    /\ sockets = <<>>
    /\ wsRef = 0
    /\ reconnectTimeoutRef = NoTimer
    /\ heartbeatIntervalRef = NoTimer
    /\ wire = {}
    /\ dropped = {}
    /\ page = [ticket |-> TRUE, loading |-> FALSE, error |-> FALSE]

\* the page that shows a ticket: the frames that move steps between
\* statuses, with the tokens and restarts of the step stream, and ticket
\* changes
NextLifecycle ==
    \/ TicketEffect
    \/ TicketFetched
    \/ PipelineByTicketFetched
    \/ PipelineFetched
    \/ PipelineFetchFailed
    \/ TicketFetchFailed
    \/ StepFrame
    \/ Token
    \/ StepStarted

SpecLifecycle == InitViewing /\ [][NextLifecycle]_vars

\* the page that shows a ticket: what writes the loaded pipeline and its
\* totals.  Ticket loads, the Start Pipeline button, step starts and
\* completions, the frames that move steps between statuses, the pipeline
\* frames and the review fetches these start
NextTotals ==
    \/ TicketEffect
    \/ TicketFetched
    \/ PipelineByTicketFetched
    \/ PipelineFetched
    \/ PipelineFetchFailed
    \/ TicketFetchFailed
    \/ StepFrame
    \/ StepStarted
    \/ StepCompleted
    \/ PipelineFrame
    \/ ReviewsFetched
    \/ ReviewsFetchFailed
    \/ PRFetched
    \/ PRFetchFailed
    \/ CreatePipeline
    \/ PipelineCreated
    \/ CreatedStepsFetched
    \/ CreateFailed

SpecTotals == InitViewing /\ [][NextTotals]_vars

\* the worktree frames with the user's answer to a request for setup
\* commands, the frames that only start fetches, and offline notifications
NextWorktree ==
    \/ WorktreeFrame
    \/ FetchFrame
    \/ OfflineEvent
    \/ ReviewsFetched
    \/ ReviewsFetchFailed
    \/ PRFetched
    \/ PRFetchFailed
    \/ SubmitUserInput
    \/ UserInputProvided
    \/ UserInputFailed

SpecWorktree == InitViewing /\ [][NextWorktree]_vars

\* the batch responses of a load against the subagent frames of the socket
NextHistory ==
    \/ SubagentToolCall
    \/ StepStarted
    \/ OutputsFetched
    \/ OutputsFetchFailed
    \/ SubagentsFetched
    \/ SubagentsFetchFailed

SpecHistory == InitLoading /\ [][NextHistory]_vars

\* the step-output response of a load against the live stream of the socket
NextReplay ==
    \/ Token
    \/ ToolCallStarted
    \/ StepCompleted
    \/ OutputsFetched
    \/ OutputsFetchFailed

SpecReplay == InitLoading /\ [][NextReplay]_vars

\* frames of several pipelines arriving at a page that loads one of them
NextAddressed ==
    \/ TicketEffect
    \/ TicketFetched
    \/ PipelineByTicketFetched
    \/ PipelineFetched
    \/ PipelineFetchFailed
    \/ TicketFetchFailed
    \/ AddressedFrame

SpecAddressed == Init /\ [][NextAddressed]_vars

\* a loaded pipeline whose steps ask for clarifications and get answers, by
\* frames of the socket and through the prompt on the page
NextClarify ==
    \/ TicketEffect
    \/ TicketFetched
    \/ PipelineByTicketFetched
    \/ PipelineFetched
    \/ PipelineFetchFailed
    \/ TicketFetchFailed
    \/ ClarificationFrame
    \/ SubmitClarification
    \/ ClarificationSubmitted
    \/ ClarificationSubmitFailed

SpecClarify == Init /\ [][NextClarify]_vars

\* the subagent events of both kinds arriving for steps that start and restart
NextSubagentEvents ==
    \/ StepStarted
    \/ SubagentToolCall
    \/ SubagentText

SpecSubagentEvents == Init /\ [][NextSubagentEvents]_vars

\* a step that calls tools, one of them a Task with a subagent, and completes
NextFreeze ==
    \/ Token
    \/ ToolCallStarted
    \/ SubagentToolCall
    \/ StepCompleted

SpecFreeze == Init /\ [][NextFreeze]_vars

\* frames stream into the page of one ticket while its pipeline's controls
\* are used, then the route changes to another ticket, with requests still
\* in flight, and its pipeline arrives
NextSwitch ==
    \/ Token
    \/ SubagentToolCall
    \/ StepCompleted
    \/ ClarificationFrame
    \/ StepFrame
    \/ ControlPipeline
    \/ PipelineControlled
    \/ ControlFailed
    \/ TicketEffect
    \/ TicketFetched
    \/ PipelineByTicketFetched
    \/ PipelineFetched

SpecSwitch == InitViewing /\ [][NextSwitch]_vars

(***************************************************************************)
(* Properties                                                              *)
(***************************************************************************)
\* the in-order concatenation of the Text entries of an event log
RECURSIVE TextOf(_)
TextOf(log) ==
    IF log = <<>> THEN ""
    ELSE (IF Head(log).type = "text" THEN Head(log).content ELSE "")
         \o TextOf(Tail(log))

\* a step's live log, empty when the step has none
LiveLog(s, n) == Get(s.stepEvents, n, <<>>)

\* a step's frozen view, empty when the step has none
FrozenView(s, n) == Get(s.completedEvents, n, <<>>)

\* what an entry shows: its variant with its content, or its tool and arguments
EntryView(e) ==
    IF e.type = "text" THEN <<"text", e.content>>
    ELSE <<"tool_call", e.tool, e.arguments>>

LogView(log) == [i \in 1..Len(log) |-> EntryView(log[i])]

\* the output field of a step_completed frame, '' when it has none
OutputOf(message) == IF "output" \in DOMAIN message THEN message.output ELSE ""

\* C1 (as stated): in every step of the stream the Text entries of each live
\* log concatenate to the tokens that arrived for it, and the flattened text
\* stored when step_completed(N) is handled is that concatenation.
C1_FlattenedIsTokens ==
    [][ /\ \A n \in StepNums : TextOf(LiveLog(store', n)) = arrived'[n]
        /\ lastOp'.type = "step_completed"
            => store'.stepOutputs[lastOp'.step] = arrived[lastOp'.step] ]_vars

\* C1 (amended): the Text entries of each live log concatenate to the tokens
\* that arrived for it, however they were coalesced; the flattened text stored
\* at step_completed(N) is that concatenation when it is non-empty, and the
\* frame's output field ('' when absent) when no token text arrived.
C1_TokenConcat ==
    [][ /\ \A n \in StepNums : TextOf(LiveLog(store', n)) = arrived'[n]
        /\ lastOp'.type = "step_completed"
            => store'.stepOutputs[lastOp'.step] =
                    IF arrived[lastOp'.step] # "" THEN arrived[lastOp'.step]
                    ELSE OutputOf(lastOp') ]_vars

\* tokens 'Hel' and 'lo' were coalesced into one entry, a tool call followed,
\* and the step completed
C1_Witness ==
    /\ lastOp.type = "step_completed" /\ lastOp.step = 1
    /\ Len(LiveLog(prev, 1)) = 2
    /\ LiveLog(prev, 1)[1].type = "text" /\ LiveLog(prev, 1)[1].content = "Hello"
    /\ store.stepOutputs[1] = "Hello"

\* C2 (as stated): when step_completed(N) is handled the frozen view of N is
\* the live log as it stood (same entries, order, variant, content, tool and
\* arguments), stepOutputs[N] is the concatenation of its Text entries, and
\* the live log of N is cleared.
C2_FreezeAsStated ==
    lastOp.type = "step_completed" =>
        /\ lastOp.step \in DOMAIN store.completedEvents
        /\ LogView(store.completedEvents[lastOp.step]) = LogView(LiveLog(prev, lastOp.step))
        /\ store.stepOutputs[lastOp.step] = TextOf(LiveLog(prev, lastOp.step))
        /\ lastOp.step \notin DOMAIN store.stepEvents

\* C2 (amended): as stated, except that stepOutputs[N] is the concatenation of
\* the log's Text entries only when that is non-empty; otherwise it is the
\* frame's output field ('' when absent).
C2_Freeze ==
    lastOp.type = "step_completed" =>
        /\ lastOp.step \in DOMAIN store.completedEvents
        /\ LogView(store.completedEvents[lastOp.step]) = LogView(LiveLog(prev, lastOp.step))
        /\ store.stepOutputs[lastOp.step] =
                IF TextOf(LiveLog(prev, lastOp.step)) # ""
                THEN TextOf(LiveLog(prev, lastOp.step))
                ELSE OutputOf(lastOp)
        /\ lastOp.step \notin DOMAIN store.stepEvents

\* token 'Hel', token 'lo', tool_call_started Search, step_completed(1)
C2_Witness ==
    /\ lastOp.type = "step_completed" /\ lastOp.step = 1
    /\ LogView(FrozenView(store, 1)) = << <<"text", "Hello">>, <<"tool_call", "Search", <<>>>> >>
    /\ FrozenView(store, 1)[1].timestamp = "1970-01-01T00:00:00.000Z"
    /\ store.stepOutputs[1] = "Hello"
    /\ LiveLog(store, 1) = <<>>

\* C3: the totals of the loaded pipeline are the totals at load plus the
\* tokens_used and cost of every step_completed frame handled since; no other
\* socket frame changes them.
C3_TotalsAdditive ==
    store.currentPipeline # Null =>
        /\ store.currentPipeline.total_tokens = acct.tokens
        /\ store.currentPipeline.total_cost = acct.cost

\* a pipeline loaded with totals 12 / 3 has handled two step_completed frames
C3_Witness ==
    /\ lastOp.type = "step_completed"
    /\ store.currentPipeline # Null
    /\ prev.currentPipeline # Null
    /\ prev.currentPipeline.total_tokens = 22
    /\ store.currentPipeline.total_tokens = 27
    /\ store.currentPipeline.total_cost = 6

\* C4: immediately after step_started(N) the live log and the subagent index
\* of N are empty, whatever N held before.
C4_StartClears ==
    lastOp.type = "step_started" =>
        /\ LiveLog(store, lastOp.step) = <<>>
        /\ Get(store.stepSubagentActivities, lastOp.step, <<>>) = <<>>

\* step 1 held a live log and subagent activity when step_started(1) arrived
C4_Witness ==
    /\ lastOp.type = "step_started" /\ lastOp.step = 1
    /\ LiveLog(prev, 1) # <<>>
    /\ Get(prev.stepSubagentActivities, 1, <<>>) # <<>>

\* C5: step_started(N) turns N to running and every running step below N to
\* completed; every other step keeps its status.
C5_StartDemotes ==
    lastOp.type = "step_started" =>
        /\ Len(store.currentSteps) = Len(prev.currentSteps)
        /\ \A i \in 1..Len(prev.currentSteps) :
            LET old == prev.currentSteps[i]
                new == store.currentSteps[i]
            IN  /\ new.step_number = old.step_number
                /\ new.status =
                    IF old.step_number = lastOp.step THEN "running"
                    ELSE IF old.step_number < lastOp.step /\ old.status = "running"
                         THEN "completed"
                         ELSE old.status

\* step_started(2) arrived while step 1 was running
C5_Witness ==
    /\ lastOp.type = "step_started" /\ lastOp.step = 2
    /\ Len(prev.currentSteps) = 2
    /\ prev.currentSteps[1].status = "running"
    /\ store.currentSteps[1].status = "completed"
    /\ store.currentSteps[2].status = "running"


\* the status the page holds for step n, "none" when it lists no such step
StatusOf(s, n) ==
    IF \E i \in 1..Len(s.currentSteps) : s.currentSteps[i].step_number = n
    THEN LET i == CHOOSE i \in 1..Len(s.currentSteps) : s.currentSteps[i].step_number = n
         IN  s.currentSteps[i].status
    ELSE "none"

\* StepCard.tsx 915-970: CompletedEventsView lists every event while its
\* history is shown; otherwise it lists the last text event alone, or the last
\* event when there is no text event
CompletedEventsView(events, showAll) ==
    LET texts == {i \in 1..Len(events) : events[i].type = "text"}
        lastTextIndex == IF texts = {} THEN 0
                         ELSE CHOOSE i \in texts : \A j \in texts : j <= i
    IN  IF showAll THEN events
        ELSE IF lastTextIndex > 0 THEN <<events[lastTextIndex]>>
        ELSE IF Len(events) > 0 THEN <<events[Len(events)]>>
        ELSE <<>>

\* StepCard.tsx 1218-1275: the entries the expanded card lists for step n of
\* a loaded pipeline.  The live log while the step is running; once it is
\* completed the frozen view through CompletedEventsView, or, when there is
\* none, one text block holding the step's flattened output; nothing for a
\* step in another status, or one the page does not list
StepCardBody(s, n, showAll) ==
    IF StatusOf(s, n) = "running" THEN LiveLog(s, n)
    ELSE IF StatusOf(s, n) = "completed"
    THEN IF Len(FrozenView(s, n)) > 0
         THEN CompletedEventsView(FrozenView(s, n), showAll)
         ELSE IF Get(s.stepOutputs, n, "") # ""
              THEN <<[type |-> "text", content |-> Get(s.stepOutputs, n, "")]>>
              ELSE <<>>
    ELSE <<>>

\* TicketDetail.tsx 253-281, 315, 378-390: the entries the page in state pg
\* lists in the expanded card of step n.  None while the page shows its
\* loading line, its error card or no ticket, none without a pipeline; else
\* those of the step's card
CardBody(s, pg, n, showAll) ==
    IF pg.loading \/ pg.error \/ ~pg.ticket THEN <<>>
    ELSE IF s.currentPipeline = Null THEN <<>>
    ELSE StepCardBody(s, n, showAll)

\* the texts a trailing Text entry can grow by
TokenRuns == {""} \cup Tokens \cup {t \o u : t \in Tokens, u \in Tokens}

\* log `a` is a prefix of log `b`, where the last entry of `a` may have grown
\* by concatenation if it is a Text entry
IsPrefixLog(a, b) ==
    /\ Len(a) <= Len(b)
    /\ \A i \in 1..Len(a) :
        \/ EntryView(a[i]) = EntryView(b[i])
        \/ /\ i = Len(a)
           /\ a[i].type = "text" /\ b[i].type = "text"
           /\ \E r \in TokenRuns : b[i].content = a[i].content \o r

\* C6: between consecutive states not separated by step_started(N), the log
\* the card of N presents on the page with its history shown keeps the log it
\* presented before as a prefix, under every socket frame, batch response and
\* acknowledgement (the clearing done when the page turns to another ticket
\* and the installation of a fetched pipeline are left out).
C6_PrefixStable ==
    [][ lastOp'.type \notin {"init", "ticket_effect", "pipeline_fetched",
                             "pipeline_fetch_failed"} =>
            \A n \in StepNums :
                \/ lastOp'.type = "step_started" /\ lastOp'.step = n
                \/ IsPrefixLog(CardBody(store, page, n, TRUE),
                               CardBody(store', page', n, TRUE)) ]_vars

\* the store after the batch response last handled is applied once more
Reapplied == applyStepOutputs(store, lastOp.response, lastOp.load, now)

\* the response carries persisted tool calls for the load's running step
ReplaysRunningStep(response, load) ==
    \E n \in DOMAIN response.steps :
        IsRunningStep(load, n) /\ Len(response.steps[n].tool_calls) > 0

\* C7: applying a completed-events snapshot a second time leaves the store as
\* the first application left it (steps of the response that take the
\* completed-step branch of loadStepOutputs).
C7_SnapshotIdempotent ==
    (lastOp.type = "outputs_fetched"
        /\ ~ReplaysRunningStep(lastOp.response, lastOp.load))
    => Reapplied = store

\* a structured snapshot for completed step 1 was applied, and applying it
\* again changes nothing
C7_Witness ==
    /\ lastOp.type = "outputs_fetched"
    /\ 1 \in DOMAIN lastOp.response.steps
    /\ lastOp.response.steps[1] = StructuredStepData
    /\ ~ReplaysRunningStep(lastOp.response, lastOp.load)
    /\ store.completedEvents[1] = StructuredStepData.events
    /\ store.stepOutputs[1] = "Hello"
    /\ Reapplied = store

\* the step state of a store, live-log entries without their timestamps
StepState(s) ==
    [stepEvents |-> [n \in DOMAIN s.stepEvents |-> LogView(s.stepEvents[n])],
     completedEvents |-> s.completedEvents,
     completedToolCalls |-> s.completedToolCalls,
     stepOutputs |-> s.stepOutputs,
     stepSubagentActivities |-> s.stepSubagentActivities]

\* C8: running loadStepOutputs again with the same batch response, the
\* running step's persisted tool calls included, leaves stepEvents,
\* completedEvents, completedToolCalls, stepOutputs and
\* stepSubagentActivities as the first run left them.
C8_RerunIdempotent ==
    lastOp.type = "outputs_fetched" => StepState(Reapplied) = StepState(store)

\* tool-use ids occur at most once among the tool calls of a live log
NoDuplicateToolUse(log) ==
    \A i, j \in 1..Len(log) :
        (i < j /\ log[i].type = "tool_call" /\ log[j].type = "tool_call"
            /\ log[i].tool_use_id # Undefined)
        => log[i].tool_use_id # log[j].tool_use_id

\* C9: when the batch step-output response arrives, a tool invocation the
\* socket already put into the running step's live log is not added again.
C9_ReplayAddsNoDuplicate ==
    lastOp.type = "outputs_fetched" =>
        \A n \in StepNums :
            NoDuplicateToolUse(LiveLog(prev, n)) => NoDuplicateToolUse(LiveLog(store, n))

\* C10: the offline queue never grows when acknowledgeOfflineEvents is called
\* or its request succeeds or fails, and never shrinks when an offline_event
\* frame is handled.
C10_QueueMonotone ==
    /\ lastOp.type \in {"ack_skipped", "ack_request", "ack_succeeded", "ack_failed"}
        => Len(store.offlineEvents) <= Len(prev.offlineEvents)
    /\ lastOp.type = "offline_event"
        => Len(store.offlineEvents) >= Len(prev.offlineEvents)

\* two notifications were queued and the acknowledgement of one succeeded
C10_Witness ==
    /\ lastOp.type = "ack_succeeded"
    /\ Len(prev.offlineEvents) = 2
    /\ Len(store.offlineEvents) = 1

\* the ids of the events in a queue
IdsOf(events) == {events[i].id : i \in 1..Len(events)}

\* C11: an id that a successful acknowledgement removed from the offline
\* queue is in the queue of no later state, whatever notifications, session
\* restores and acknowledgements follow.
C11_AckedNeverReappears == IdsOf(store.offlineEvents) \cap acked = {}

\* C12: a call of acknowledgeOfflineEvents that is skipped for lack of a
\* session id, has not been answered yet, or has failed leaves offlineEvents
\* and showOfflineBanner exactly as they were.
C12_FailureLeavesQueue ==
    lastOp.type \in {"ack_skipped", "ack_request", "ack_failed"} =>
        /\ store.offlineEvents = prev.offlineEvents
        /\ store.showOfflineBanner = prev.showOfflineBanner

\* the acknowledgement of a queued event failed and the event is still
\* queued, with the banner showing
C12_Witness ==
    /\ lastOp.type = "ack_failed"
    /\ lastOp.eventIds \cap IdsOf(store.offlineEvents) # {}
    /\ store.showOfflineBanner

\* C13: after a successful session restore the store holds the server's
\* session id, tabs and active tab, and every event of the server's
\* missed_events is in the offline queue.
C13_RestoreLoadsMissed ==
    lastOp.type = "session_restored" =>
        /\ store.sessionId = lastOp.session.session_id
        /\ store.tabs = lastOp.session.tabs
        /\ store.activeTab = OrStr(lastOp.session, "active_tab", Undefined)
        /\ IdsOf(lastOp.session.missed_events) \subseteq IdsOf(store.offlineEvents)

\* the subagent index of step n, empty when the step has none
ActivitiesOf(s, n) == Get(s.stepSubagentActivities, n, <<>>)

\* the activity of parent id p in step n is completed
IsCompleted(s, n, p) ==
    p \in DOMAIN ActivitiesOf(s, n) /\ ActivitiesOf(s, n)[p].status = "completed"

\* StepCard.tsx 561: the event log of a subagent record, `activity.events || []`
ActivityEvents(activity) ==
    IF "events" \in DOMAIN activity THEN activity.events ELSE <<>>

\* C14: a subagent frame of either kind for a step and a parent id that has
\* no record creates a running record whose event log holds that frame's
\* event as its only entry; markSubagentCompleted turns a known record to
\* completed and changes nothing else, and changes nothing at all for an
\* unknown parent id; a record becomes completed only by that signal, which
\* no step of the program sends, or by the bulk load of the history.
C14_TrackerLifecycle ==
    /\ (/\ lastOp.type \in {"subagent_tool_call", "subagent_text"}
        /\ lastOp.parent_tool_use_id \notin DOMAIN ActivitiesOf(prev, lastOp.step))
        => /\ lastOp.parent_tool_use_id \in DOMAIN ActivitiesOf(store, lastOp.step)
           /\ LET activity == ActivitiesOf(store, lastOp.step)[lastOp.parent_tool_use_id]
              IN  /\ activity.status = "running"
                  /\ activity.parent_tool_use_id = lastOp.parent_tool_use_id
                  /\ Len(ActivityEvents(activity)) = 1
                  /\ ActivityEvents(activity)[1].timestamp = lastOp.timestamp
    /\ \A n \in StepNums, p \in ParentIds :
        markSubagentCompleted(store, n, p) =
            IF p \in DOMAIN ActivitiesOf(store, n)
            THEN [store EXCEPT !.stepSubagentActivities[n][p].status = "completed"]
            ELSE store
    /\ \A n \in StepNums, p \in ParentIds :
        (IsCompleted(store, n, p) /\ ~IsCompleted(prev, n, p))
            => lastOp.type = "subagents_fetched"

\* the hook's current socket has just closed without disconnect() having closed it
Dropped ==
    /\ lastOp.type = "onclose"
    /\ ~lastOp.closeCalled
    /\ lastOp.socket = wsRef

\* a call of connect() has just got past its guard to new WebSocket()
Retried ==
    /\ lastOp.type \in {"connect", "reconnect_timer", "visibility"}
    /\ lastOp.attempt

TransportStatus ==
    CASE ReadyState(Hook) = "CONNECTING" -> "connecting"
      [] ReadyState(Hook) = "OPEN" -> "connected"
      [] OTHER -> "disconnected"

\* C16: the connection-status indicator follows the transport: 'connecting'
\* while the current socket is being opened, 'connected' once it is open and
\* 'disconnected' otherwise.
C16_StatusFollowsTransport == store.wsStatus = TransportStatus

\* the step is a call of connect(): by a caller, by the reconnect timer, or
\* by the visibility handler when the current socket is not open
CallsConnect ==
    \/ lastOp'.type \in {"connect", "reconnect_timer"}
    \/ lastOp'.type = "visibility" /\ ReadyState(Hook) # "OPEN"

\* C17: at most one socket created by the hook is CONNECTING or OPEN, in
\* every state and after every step, and a connect() made while the current
\* socket is CONNECTING or OPEN creates no socket and keeps the current one.
C17_OneLiveSocket ==
    [][ /\ Cardinality(LiveSockets(sockets)) <= 1
        /\ Cardinality(LiveSockets(sockets')) <= 1
        /\ (CallsConnect /\ ReadyState(Hook) \in {"CONNECTING", "OPEN"})
              => (sockets' = sockets /\ wsRef' = wsRef) ]_vars

\* the reconnect timer armed by an earlier socket's close has called connect()
\* while the second socket is open, and no third socket exists
C17_Witness ==
    /\ lastOp.type = "reconnect_timer"
    /\ ~lastOp.attempt
    /\ Len(sockets) = 2
    /\ wsRef = 2
    /\ sockets[2].readyState = "OPEN"
    /\ Cardinality(LiveSockets(sockets)) = 1

\* C18: a send() made while the current socket is not OPEN changes nothing
\* (nothing transmitted, nothing kept in the hook or the store), and a message
\* passed to such a send() is never transmitted afterwards, whatever
\* connections follow.
C18_NotOpenSendIsLost ==
    [][ /\ dropped' \cap wire' = {}
        /\ (lastOp'.type = "send" /\ ReadyState(Hook) # "OPEN")
              => UNCHANGED <<sockets, wsRef, reconnectTimeoutRef,
                             heartbeatIntervalRef, wire, store>> ]_vars

\* a message was sent before the first socket opened; the socket has opened
\* since, another message has just been transmitted, and the first never was
C18_Witness ==
    /\ dropped # {}
    /\ dropped \cap wire = {}
    /\ Len(sockets) = 1
    /\ sockets[1].readyState = "OPEN"
    /\ wsRef = 1
    /\ lastOp.type = "send"
    /\ lastOp.open
    /\ lastOp.message \in wire

\* C19: the close callback of a socket that disconnect() closed schedules no
\* reconnect: after it has run, no reconnect timer is pending.
C19_NoRetryAfterDisconnect ==
    (lastOp.type = "onclose" /\ lastOp.closeCalled)
        => reconnectTimeoutRef.state # "pending"

\* the frame is not JSON, or is JSON without a type discriminator that
\* handleWSMessage has a case for
Unhandled(data) ==
    \/ data \notin ValidFrameJSON
    \/ FrameJSONparse(data) = Null
    \/ FrameJSONparse(data).type \notin HandledTypes

\* C20: when a frame that is malformed JSON or carries an unrecognized type
\* arrives, the store is unchanged, no exception leaves the message callback,
\* and the socket, its heartbeat and the reconnect timer are as they were.
C20_BadFrameDropped ==
    [][ (lastOp'.type = "frame" /\ now' = now + 1 /\ Unhandled(lastOp'.data))
            => /\ store' = store
               /\ ~lastOp'.escaped
               /\ UNCHANGED <<sockets, wsRef, heartbeatIntervalRef, reconnectTimeoutRef>>
               /\ ReadyState(Hook) = "OPEN" ]_vars

\* tokens have been streamed, then a malformed frame arrived: the streamed text
\* is still in the store and the socket is open with its heartbeat running
C20_Witness ==
    /\ lastOp.type = "frame"
    /\ lastOp.data = "not json"
    /\ ~lastOp.escaped
    /\ arrived[1] = "HelHel"
    /\ LogView(LiveLog(store, 1)) = <<EntryView([type |-> "text", content |-> "HelHel"])>>
    /\ prev = store
    /\ ReadyState(Hook) = "OPEN"
    /\ heartbeatIntervalRef.state = "active"

\* currentSteps holds a Step record numbered n
HasStep(s, n) == \E i \in 1..Len(s.currentSteps) : s.currentSteps[i].step_number = n

\* the frames that name a step
StepEventTypes ==
    {"token", "tool_call_started", "step_started", "step_completed", "step_skipped",
     "pipeline_failed", "clarification_requested", "clarification_answered"}

\* the step list, the pipeline with its pointer and totals, the live logs, the
\* frozen views and the outputs
StepView(s) ==
    [currentSteps |-> s.currentSteps, currentPipeline |-> s.currentPipeline,
     stepEvents |-> s.stepEvents, completedEvents |-> s.completedEvents,
     stepOutputs |-> s.stepOutputs]

\* C21: a step frame whose step number has no Step record in currentSteps
\* leaves the step list, the pipeline, the live logs, the frozen views and
\* the outputs as they were.
C21_UnknownStepIgnored ==
    (lastOp.type \in StepEventTypes /\ ~HasStep(prev, lastOp.step))
        => StepView(store) = StepView(prev)

\* C22: a frame whose pipeline_id is not the id of the loaded pipeline, or
\* that arrives while no pipeline is loaded, leaves the pipeline, its steps,
\* the live logs, the frozen views and the outputs as they were.
C22_ForeignPipelineIgnored ==
    ("pipeline_id" \in DOMAIN lastOp
        /\ (prev.currentPipeline = Null \/ lastOp.pipeline_id # prev.currentPipeline.id))
        => StepView(store) = StepView(prev)

\* what the store holds for step n besides its live log: the frozen view, the
\* fallback tool calls and the flattened output
SettledOf(s, n) ==
    <<Get(s.completedEvents, n, Undefined), Get(s.completedToolCalls, n, Undefined),
      Get(s.stepOutputs, n, Undefined)>>

\* C23: when the batch step-output response is applied, the step the load
\* took as running keeps its live-log entries as a prefix of its new live
\* log, and its frozen view, fallback tool calls and flattened output are
\* not written.
C23_RunningStepOnlyReplayed ==
    lastOp.type = "outputs_fetched" =>
        \A n \in DOMAIN lastOp.response.steps :
            IsRunningStep(lastOp.load, n) =>
                /\ Len(LiveLog(prev, n)) <= Len(LiveLog(store, n))
                /\ SubSeq(LiveLog(store, n), 1, Len(LiveLog(prev, n))) = LiveLog(prev, n)
                /\ SettledOf(store, n) = SettledOf(prev, n)

\* the tool-use ids of the subagent calls collected for parent p of step n
CollectedIds(s, n, p) ==
    LET calls == ActivitiesOf(s, n)[p].tool_calls
    IN  {calls[i].tool_use_id : i \in 1..Len(calls)}

\* C24: after the batch subagent-call response is applied, every activity the
\* tracker held before is still there with the calls it had collected, and
\* every activity built from the response has status completed.
C24_HistoryMerges ==
    lastOp.type = "subagents_fetched" =>
        /\ \A n \in DOMAIN prev.stepSubagentActivities :
            \A p \in DOMAIN ActivitiesOf(prev, n) :
                /\ p \in DOMAIN ActivitiesOf(store, n)
                /\ CollectedIds(prev, n, p) \subseteq CollectedIds(store, n, p)
        /\ \A i \in 1..Len(lastOp.history) :
            IsCompleted(store, lastOp.history[i].step_number,
                        lastOp.history[i].parent_tool_use_id)

\* entry j of `log` is the tool invocation that entry i of `log` already is
SameToolUse(log, i, j) ==
    /\ log[i].type = "tool_call" /\ log[j].type = "tool_call"
    /\ log[i].tool_use_id # Undefined
    /\ log[i].tool_use_id = log[j].tool_use_id

\* C25: when the persisted tool calls of the running step are replayed, a
\* replayed call that the socket had delivered before some live entry of the
\* log is not placed after that entry.
C25_ReplayKeepsOrder ==
    lastOp.type = "outputs_fetched" =>
        \A n \in StepNums :
            LET before == LiveLog(prev, n)
                after == LiveLog(store, n)
            IN  \A j \in (Len(before) + 1)..Len(after) :
                    \A i \in 1..Len(before) :
                        SameToolUse(after, i, j) => i = Len(before)

\* maps f and g agree at key n: both lack it, or both hold the same value
SameAt(f, g, n) ==
    /\ (n \in DOMAIN f) = (n \in DOMAIN g)
    /\ n \in DOMAIN f => f[n] = g[n]

\* C26: when the batch step-output response is applied, a step that is not
\* the load's running step gets its structured events list, if non-empty, as
\* its frozen view with its fallback tool calls left as they were, even when
\* the response also carries legacy tool calls; the fallback is installed,
\* and the frozen view left alone, only when the events list is empty.
C26_StructuredBeforeFallback ==
    lastOp.type = "outputs_fetched" =>
        \A n \in DOMAIN lastOp.response.steps :
            LET stepData == lastOp.response.steps[n]
            IN  ~IsRunningStep(lastOp.load, n) =>
                    IF Len(stepData.events) > 0
                    THEN /\ FrozenView(store, n) = stepData.events
                         /\ SameAt(store.completedToolCalls, prev.completedToolCalls, n)
                    ELSE /\ SameAt(store.completedEvents, prev.completedEvents, n)
                         /\ Len(stepData.tool_calls) > 0 =>
                                /\ n \in DOMAIN store.completedToolCalls
                                /\ store.completedToolCalls[n]
                                        = FallbackToolCalls(stepData.tool_calls)

\* no two neighbouring entries of the log are both Text entries
NoAdjacentText(log) ==
    \A i \in 1..(Len(log) - 1) : ~(log[i].type = "text" /\ log[i + 1].type = "text")

\* `after` is `before` with one entry added at its end
GrewByOne(before, after) ==
    Len(after) = Len(before) + 1 /\ SubSeq(after, 1, Len(before)) = before

\* C27: no live log ever has two adjacent Text entries; a tool_call_started
\* frame adds exactly one ToolCall entry at the end of its step's log and
\* changes no other entry; a token that follows a tool call (or an empty log)
\* adds exactly one Text entry holding the token, and a token that follows a
\* Text entry adds no entry.
C27_TextRunsCoalesce ==
    [][ /\ \A n \in StepNums : NoAdjacentText(LiveLog(store', n))
        /\ (now' = now + 1 /\ lastOp'.type \in {"token", "tool_call_started"}) =>
            LET before == LiveLog(store, lastOp'.step)
                after == LiveLog(store', lastOp'.step)
            IN  IF lastOp'.type = "tool_call_started"
                THEN /\ GrewByOne(before, after)
                     /\ EntryView(after[Len(after)])
                            = <<"tool_call", lastOp'.tool, lastOp'.arguments>>
                ELSE IF before = <<>> \/ before[Len(before)].type = "tool_call"
                THEN /\ GrewByOne(before, after)
                     /\ EntryView(after[Len(after)]) = <<"text", lastOp'.token>>
                ELSE Len(after) = Len(before) ]_vars

\* two tokens, a tool call and a third token: the log has one Text entry for
\* each of the two token runs, with the tool call between them
C27_Witness ==
    /\ lastOp.type = "token"
    /\ LogView(LiveLog(store, 1))
        = << <<"text", "Hello">>, <<"tool_call", "Search", <<>> >>, <<"text", "Hel">> >>

\* the pipeline's current-step pointer, 0 when no pipeline is loaded (steps
\* are numbered from 1)
PointerOf(s) ==
    IF s.currentPipeline = Null THEN 0 ELSE s.currentPipeline.current_step

\* C28: step_completed(N) sets step N to completed and moves the
\* pointer to the declared next step, and leaves the pointer where it was
\* when no next step is declared.
C28_PointerStaysPut ==
    (lastOp.type = "step_completed" /\ prev.currentPipeline # Null) =>
        /\ HasStep(prev, lastOp.step) => StatusOf(store, lastOp.step) = "completed"
        /\ PointerOf(store) = IF "next_step" \in DOMAIN lastOp THEN lastOp.next_step
                              ELSE PointerOf(prev)

\* the Step record numbered n (for a store that has one)
StepOf(s, n) ==
    s.currentSteps[CHOOSE i \in 1..Len(s.currentSteps) : s.currentSteps[i].step_number = n]

\* the step numbers of the store's step list, in order
StepNumbers(s) == [i \in 1..Len(s.currentSteps) |-> s.currentSteps[i].step_number]

\* the step outputs of the store: live logs, flattened outputs, frozen views,
\* fallback tool calls and subagent activities
OutputState(s) ==
    [stepEvents |-> s.stepEvents, stepOutputs |-> s.stepOutputs,
     completedEvents |-> s.completedEvents,
     completedToolCalls |-> s.completedToolCalls,
     stepSubagentActivities |-> s.stepSubagentActivities]

\* C29: with a pipeline loaded, step_skipped(N, reason, next) turns step N to
\* skipped with the reason in its error message, turns step next to running,
\* sets the pointer to next, and leaves every other step, every other field
\* of the pipeline (status, totals) and all step outputs as they were.
C29_SkipAdvances ==
    (lastOp.type = "step_skipped" /\ prev.currentPipeline # Null) =>
        /\ StepNumbers(store) = StepNumbers(prev)
        /\ \A n \in StepNums : HasStep(prev, n) =>
            StepOf(store, n) =
                IF n = lastOp.step
                THEN [StepOf(prev, n) EXCEPT
                        !.status = "skipped",
                        !.error_message = "[SKIPPED] " \o lastOp.reason]
                ELSE IF n = lastOp.next_step
                THEN [StepOf(prev, n) EXCEPT !.status = "running"]
                ELSE StepOf(prev, n)
        /\ store.currentPipeline =
                [prev.currentPipeline EXCEPT !.current_step = lastOp.next_step]
        /\ OutputState(store) = OutputState(prev)

\* step 1 of a running pipeline was skipped while it held streamed text:
\* step 1 is skipped, step 2 is running, the pointer is at 2
C29_Witness ==
    /\ lastOp.type = "step_skipped"
    /\ lastOp.step = 1
    /\ PointerOf(prev) = 1
    /\ StatusOf(prev, 2) = "pending"
    /\ LiveLog(prev, 1) # <<>>
    /\ StatusOf(store, 1) = "skipped"
    /\ StatusOf(store, 2) = "running"
    /\ PointerOf(store) = 2

\* C30: with a pipeline loaded, pipeline_failed(N, error) sets the pipeline's
\* status to failed and step N to failed with the error text as its error
\* message, leaves every other step as it was, and leaves stepEvents,
\* stepOutputs, completedEvents, completedToolCalls and
\* stepSubagentActivities unchanged for every step.
C30_FailureKeepsOutput ==
    (lastOp.type = "pipeline_failed" /\ prev.currentPipeline # Null) =>
        /\ store.currentPipeline = [prev.currentPipeline EXCEPT !.status = "failed"]
        /\ StepNumbers(store) = StepNumbers(prev)
        /\ \A n \in StepNums : HasStep(prev, n) =>
            StepOf(store, n) =
                IF n = lastOp.step
                THEN [StepOf(prev, n) EXCEPT !.status = "failed",
                                             !.error_message = lastOp.error]
                ELSE StepOf(prev, n)
        /\ OutputState(store) = OutputState(prev)

\* the pipeline failed at step 1 after text had been streamed for it: the
\* step is failed with the error recorded and its live log is still there
C30_Witness ==
    /\ lastOp.type = "pipeline_failed"
    /\ lastOp.step = 1
    /\ store.currentPipeline # Null
    /\ store.currentPipeline.status = "failed"
    /\ StatusOf(store, 1) = "failed"
    /\ StepOf(store, 1).error_message = "boom"
    /\ TextOf(LiveLog(store, 1)) = "Hel"

\* C31: a clarification_answered frame that does not name the pending
\* clarification (another id, or another step) leaves the pending
\* clarification, the pipeline and the steps as they were.
C31_OnlyMatchingAnswerReverses ==
    (/\ lastOp.type = "clarification_answered"
     /\ prev.pendingClarification # Null
     /\ \/ lastOp.clarification_id # prev.pendingClarification.id
        \/ lastOp.step # prev.pendingClarification.stepNumber)
        => /\ store.pendingClarification = prev.pendingClarification
           /\ store.currentPipeline = prev.currentPipeline
           /\ store.currentSteps = prev.currentSteps

\* a clarification_requested frame for step N sets step N to waiting, the
\* pipeline to waiting_for_review, and records the clarification; every
\* clarification_answered frame for step N sets step N and the pipeline to
\* running and clears the pending clarification
C31_RequestThenAnswer ==
    /\ (lastOp.type = "clarification_requested" /\ prev.currentPipeline # Null) =>
        /\ store.currentPipeline.status = "waiting_for_review"
        /\ HasStep(prev, lastOp.step) => StatusOf(store, lastOp.step) = "waiting"
        /\ store.pendingClarification.id = lastOp.clarification_id
        /\ store.pendingClarification.stepNumber = lastOp.step
    /\ (lastOp.type = "clarification_answered" /\ prev.currentPipeline # Null) =>
        /\ store.currentPipeline.status = "running"
        /\ HasStep(prev, lastOp.step) => StatusOf(store, lastOp.step) = "running"
        /\ store.pendingClarification = Null

\* C32: across every socket frame, a step that was completed, failed or
\* skipped keeps its status unless the frame is step_started for that step.
C32_SettledStepsOnlyRestart ==
    lastOp.type \in HandledTypes =>
        \A n \in StepNums :
            (/\ HasStep(prev, n)
             /\ HasStep(store, n)
             /\ StatusOf(prev, n) \in {"completed", "failed", "skipped"}
             /\ StatusOf(store, n) # StatusOf(prev, n))
                => (lastOp.type = "step_started" /\ lastOp.step = n)

\* the entries the tracker has collected for parent p of step n, in the order
\* it appended them; empty when there is no record
SubagentLog(s, n, p) ==
    IF p \in DOMAIN ActivitiesOf(s, n) THEN ActivitiesOf(s, n)[p].tool_calls ELSE <<>>

\* C33: every subagent frame of either kind for step N and parent P extends
\* the log of SubagentActivity[N][P] by one entry, carrying the frame's
\* timestamp, after the entries it held.
C33_SubagentEventsLogged ==
    lastOp.type \in {"subagent_tool_call", "subagent_text"} =>
        LET before == SubagentLog(prev, lastOp.step, lastOp.parent_tool_use_id)
            after == SubagentLog(store, lastOp.step, lastOp.parent_tool_use_id)
        IN  /\ Len(after) = Len(before) + 1
            /\ SubSeq(after, 1, Len(before)) = before
            /\ after[Len(after)].timestamp = lastOp.timestamp

\* the step is the visibility handler running while the current socket is not OPEN
VisibleWhileNotOpen == lastOp'.type = "visibility" /\ ReadyState(Hook) # "OPEN"

\* the step creates a socket, CONNECTING, and makes it the current one
OpensSocket ==
    /\ Len(sockets') = Len(sockets) + 1
    /\ wsRef' = Len(sockets')
    /\ sockets'[wsRef'].readyState = "CONNECTING"
    /\ SubSeq(sockets', 1, Len(sockets)) = sockets

\* C34 as stated: when the page becomes visible while the current socket is
\* not OPEN, the step leaves no reconnect timer pending, and opens a new
\* socket unless the current one is CONNECTING.
C34_VisibleOpensAndCancels ==
    [][VisibleWhileNotOpen =>
        /\ reconnectTimeoutRef' = NoTimer
        /\ ReadyState(Hook) # "CONNECTING" => OpensSocket]_vars

\* C34: when the page becomes visible while the current socket is not OPEN,
\* connect() runs in the same step.  If the current socket is CONNECTING the
\* hook is left as it was, a pending reconnect timer included.  Otherwise both
\* timers are cleared and either a new socket is opened, CONNECTING, or the
\* constructor threw and a fresh retry is scheduled RECONNECT_DELAY ahead.
C34_VisibleConnectsNow ==
    [][VisibleWhileNotOpen =>
        IF ReadyState(Hook) = "CONNECTING"
        THEN UNCHANGED <<sockets, wsRef, reconnectTimeoutRef, heartbeatIntervalRef>>
        ELSE /\ heartbeatIntervalRef' = NoTimer
             /\ \/ OpensSocket /\ reconnectTimeoutRef' = NoTimer
                \/ /\ UNCHANGED <<sockets, wsRef>>
                   /\ reconnectTimeoutRef' = Timer("pending", RECONNECT_DELAY)]_vars

\* the first socket closed on its own and armed the retry; the page became
\* visible before the timer fired: the second socket is open-ing and no
\* timer is left
C34_Witness ==
    /\ lastOp.type = "visibility"
    /\ lastOp.attempt
    /\ Len(sockets) = 2
    /\ sockets[1].readyState = "CLOSED"
    /\ ~sockets[1].closeCalled
    /\ wsRef = 2
    /\ sockets[2].readyState = "CONNECTING"
    /\ reconnectTimeoutRef = NoTimer

\* C35: whenever the current socket is OPEN, the heartbeat interval is active.
C35_OpenSocketHasHeartbeat ==
    ReadyState(Hook) = "OPEN" => heartbeatIntervalRef.state = "active"

\* the steps of the loaded list whose status is running
RunningSteps(s) == {n \in StepNums : HasStep(s, n) /\ StatusOf(s, n) = "running"}

\* C36: at most one step of the list is running.
C36_OneRunningStep == Cardinality(RunningSteps(store)) <= 1

\* StepCard.tsx 898-902, 1036-1039: the activity an entry of a step's log is
\* rendered with; Null when the entry has no tool-use id or the index has no
\* record under it
EventItem(event, subagentActivities) ==
    IF /\ "tool_use_id" \in DOMAIN event
       /\ event.tool_use_id \notin {Undefined, ""}
       /\ event.tool_use_id \in DOMAIN subagentActivities
    THEN subagentActivities[event.tool_use_id]
    ELSE Null

\* C37: when step_completed freezes a step's live log, every tool call of the
\* log is in the frozen view at the same place, and is rendered there with
\* the subagent activity it was rendered with in the live log.
C37_FrozenTaskResolves ==
    lastOp.type = "step_completed" =>
        LET live == LiveLog(prev, lastOp.step)
            frozen == FrozenView(store, lastOp.step)
        IN  /\ Len(frozen) = Len(live)
            /\ \A i \in 1..Len(live) : live[i].type = "tool_call" =>
                    EventItem(frozen[i], ActivitiesOf(store, lastOp.step))
                        = EventItem(live[i], ActivitiesOf(prev, lastOp.step))

\* C38: when the ticket-change effect has run, the store holds no live-log
\* entry, frozen view, output, subagent activity or pending clarification.
C38_TicketChangeClears ==
    lastOp.type = "ticket_effect" =>
        /\ store.stepEvents = <<>>
        /\ store.completedEvents = <<>>
        /\ store.stepOutputs = <<>>
        /\ store.completedToolCalls = <<>>
        /\ store.stepSubagentActivities = <<>>
        /\ store.pendingClarification = Null

\* the event's id is not one the last acknowledgement named
NotAcknowledged(e) == e.id \notin lastOp.eventIds

\* C39: when an acknowledgement request succeeds, the queue becomes the queue
\* found at that moment without the events whose ids the request named, in the
\* same order, so events queued after the request was sent stay; and
\* showOfflineBanner is true exactly when that queue is not empty.
C39_AckKeepsLaterEvents ==
    lastOp.type = "ack_succeeded" =>
        /\ store.offlineEvents = SelectSeq(prev.offlineEvents, NotAcknowledged)
        /\ store.showOfflineBanner = (store.offlineEvents # <<>>)

\* e1 was acknowledged while e2 was queued behind it: e2 alone remains and
\* the banner is shown
C39_Witness ==
    /\ lastOp.type = "ack_succeeded"
    /\ lastOp.eventIds = {"e1"}
    /\ Len(prev.offlineEvents) = 2
    /\ prev.offlineEvents[1].id = "e1"
    /\ prev.offlineEvents[2].id = "e2"
    /\ Len(store.offlineEvents) = 1
    /\ store.offlineEvents[1].id = "e2"
    /\ store.showOfflineBanner

====
